---- MODULE Spec2Model ----
(***************************************************************************)
(* Verification model of the Exploding-Kittens bots in src/bots:           *)
(*   mastermind_bot.py (MastermindBot), aaron_bot.py (MyBot, "aaron"),     *)
(*   tft_bot.py (TFTBot) and my_bot.py (MyBot).                            *)
(*                                                                         *)
(* Each bot method is a pure operator over (bot state, view[, event])      *)
(* translated from its Python source.  Three specifications drive them:    *)
(*   SpecRisk  - the risk estimators applied to bounded inputs,            *)
(*   SpecTurn  - take_turn applied to bounded knowledge states and views,  *)
(*   Spec      - the knowledge trackers driven by the events of a game.    *)
(*                                                                         *)
(* Floats are modelled as exact rationals <<num, den>>; a float literal    *)
(* such as 0.33 is the rational 33/100.                                    *)
(***************************************************************************)
EXTENDS Integers, Sequences, FiniteSets, TLC

VARIABLES
    mastermind,   \* the MastermindBot instance (its fields)
    aaron,        \* the aaron_bot.MyBot instance
    tft,          \* the TFTBot instance
    view,         \* the BotView handed to the latest call
    deck,         \* the engine's draw pile, top first (Spec only)
    pending,      \* the engine's position inside a hazard draw (Spec only)
    event,        \* the GameEvent handed to the latest on_event call
    call,         \* the latest entry point invoked: [bot, fn]
    ret           \* what that call returned

vars == <<mastermind, aaron, tft, view, deck, pending, event, call, ret>>

-----------------------------------------------------------------------------
(* Card type constants                                                     *)

STF == "SeeTheFutureCard"
SKIP == "SkipCard"
ATTACK == "AttackCard"
SHUFFLE == "ShuffleCard"
FAVOR == "FavorCard"
NOPE == "NopeCard"
DEFUSE == "DefuseCard"
EXPLODING == "ExplodingKittenCard"
TACOCAT == "TacoCatCard"
BEARDCAT == "BeardCatCard"
STRATEGIC_BOT_PREFIX == "chatgpt"

\* Python's None for a tuple-valued field, an int-valued field, a player id.
None == <<"None">>
NoCount == 0 - 1
NoPlayer == "None"

ME == "me"

-----------------------------------------------------------------------------
(* Bounds of the model                                                     *)

MaxPile == 4          \* draw pile counts 0..MaxPile handed to an estimator
MaxPlayers == 4       \* players at the table, the agent included
MaxRemoved == 3       \* eliminations counted by the tracker
MaxDefuses == 4       \* neutralizers held when the estimator is called
PeekSize == 3         \* cards a See-the-Future reveals
ScenarioDeck == 20    \* the draw pile of the end-to-end scenario

-----------------------------------------------------------------------------
(* Exact rationals for Python floats                                       *)

RECURSIVE Gcd(_, _)
Gcd(a, b) == IF b = 0 THEN a ELSE Gcd(b, a % b)

Abs(n) == IF n < 0 THEN 0 - n ELSE n

\* n/d in lowest terms, d > 0
Rat(n, d) ==
    LET g == Gcd(Abs(n), Abs(d))
        s == IF d < 0 THEN 0 - 1 ELSE 1
    IN  <<(s * n) \div g, (s * d) \div g>>

RZero == <<0, 1>>
ROne == <<1, 1>>
RLt(a, b) == a[1] * b[2] < b[1] * a[2]
RLe(a, b) == a[1] * b[2] <= b[1] * a[2]
RGe(a, b) == RLe(b, a)
RMul(a, b) == Rat(a[1] * b[1], a[2] * b[2])
RSub(a, b) == Rat(a[1] * b[2] - b[1] * a[2], a[2] * b[2])
RMin(a, b) == IF RLe(a, b) THEN a ELSE b
RMax(a, b) == IF RLe(a, b) THEN b ELSE a
Max(a, b) == IF a >= b THEN a ELSE b
Min(a, b) == IF a <= b THEN a ELSE b

-----------------------------------------------------------------------------
(* Python helpers                                                          *)

\* truthiness of a tuple-or-None field: None and () are both falsy
Truthy(t) == t # None /\ t # <<>>

\* x in t
Contains(t, x) == \E i \in 1..Len(t) : t[i] = x

\* t.index(x), 0-based; only used when x is in t
IndexOf(t, x) == (CHOOSE i \in 1..Len(t) : t[i] = x /\ \A j \in 1..(i - 1) : t[j] # x) - 1

\* d.get(k, default) for a dict modelled as a function
Get(d, k, default) == IF k \in DOMAIN d THEN d[k] ELSE default

\* view.get_cards_of_type(t): the hand positions holding a card of type t, in
\* hand order.  A card is named by its position in view.my_hand.
RECURSIVE PositionsFrom(_, _, _)
PositionsFrom(hand, t, i) ==
    IF i > Len(hand) THEN <<>>
    ELSE IF hand[i] = t THEN <<i>> \o PositionsFrom(hand, t, i + 1)
    ELSE PositionsFrom(hand, t, i + 1)

get_cards_of_type(v, t) == PositionsFrom(v.my_hand, t, 1)
count_cards_of_type(v, t) == Len(get_cards_of_type(v, t))
has_card_type(v, t) == count_cards_of_type(v, t) > 0

-----------------------------------------------------------------------------
(* Risk estimators                                                         *)

\* MastermindBot._calculate_ek_risk
Mastermind_calculate_ek_risk(s, v) ==
    IF v.draw_pile_count = 0 THEN RZero
    ELSE
    LET players == IF s.initial_player_count # NoCount /\ s.initial_player_count # 0
                   THEN s.initial_player_count ELSE Len(v.turn_order)
        baseline_kittens == Max(1, players - 1 - s.kittens_removed)
        visible == s.known_top_cards
        defuses == count_cards_of_type(v, DEFUSE)
        cushion(risk) ==
            IF defuses > 0
            THEN RMul(risk, RMax(Rat(3, 10), RSub(ROne, Rat(defuses * 25, 100))))
            ELSE risk
    IN  IF Truthy(visible)
        THEN IF visible[1] = EXPLODING THEN ROne
             ELSE IF Contains(visible, EXPLODING)
             THEN LET ek_position == IndexOf(visible, EXPLODING)
                  IN  IF ek_position = 0 THEN ROne
                      ELSE IF ek_position = 1 THEN Rat(1, 2)
                      ELSE Rat(33, 100)
             ELSE LET unseen == Max(1, v.draw_pile_count - Len(visible))
                  IN  cushion(RMin(ROne, Rat(baseline_kittens, unseen)))
        ELSE cushion(RMin(ROne, Rat(baseline_kittens, v.draw_pile_count)))

\* aaron_bot.MyBot.calculate_ek_risk
Aaron_calculate_ek_risk(s, v) ==
    LET players == IF s.initial_player_count # NoCount /\ s.initial_player_count # 0
                   THEN s.initial_player_count ELSE Len(v.turn_order)
        baseline_kittens == Max(1, players - 1 - s.kittens_removed)
        deck_size == Max(1, v.draw_pile_count)
        visible == s.known_top_cards
        defuses == count_cards_of_type(v, DEFUSE)
        risk == RMin(ROne, Rat(baseline_kittens, deck_size))
    IN  IF Truthy(visible)
        THEN IF visible[1] = EXPLODING THEN ROne
             ELSE IF Contains(visible, EXPLODING) THEN Rat(1, Len(visible))
             ELSE RMin(ROne, Rat(baseline_kittens, Max(1, deck_size - Len(visible))))
        ELSE IF defuses > 0 THEN RMul(risk, Rat(6, 10)) ELSE risk

\* TFTBot._calculate_ek_probability
TFT_calculate_ek_probability(s, v) ==
    IF v.draw_pile_count = 0 THEN RZero
    ELSE
    LET alive_players == Len(v.other_players) + 1
        estimated_eks ==
            IF s.num_players > 0
            THEN Max(1, (s.num_players - 1) - (s.num_players - alive_players))
            ELSE Max(1, alive_players - 1)
    IN  Rat(estimated_eks, v.draw_pile_count)

-----------------------------------------------------------------------------
(* Construction: the fields each __init__ sets                             *)

EmptyDict == [k \in {} |-> 0]

\* MastermindBot.__init__
MastermindInit ==
    [ turn_count |-> 0,
      initial_player_count |-> NoCount,
      first_ek_seen |-> FALSE,
      kittens_removed |-> 0,
      defuses_used |-> 0,
      known_top_cards |-> None,
      deck_shuffled |-> TRUE,
      last_shuffle_turn |-> 0 - 1,
      opponent_card_history |-> EmptyDict,
      opponent_card_counts |-> EmptyDict,
      opponent_defense_prob |-> EmptyDict,
      opponent_nope_prob |-> EmptyDict,
      opponent_defuses_used |-> EmptyDict,
      opponent_last_seen_hand_size |-> EmptyDict,
      game_phase |-> "early",
      my_defuses |-> 0,
      just_peeked |-> FALSE,
      stf_planning_turns |-> 0 ]

\* aaron_bot.MyBot.__init__
AaronInit ==
    [ turn_count |-> 0,
      initial_player_count |-> NoCount,
      first_ek_seen_from_other |-> FALSE,
      kittens_removed |-> 0,
      known_top_cards |-> None,
      opponent_card_history |-> EmptyDict,
      opponent_card_counts |-> EmptyDict,
      defuses_seen |-> 0 ]

\* TFTBot.__init__
TFTInit ==
    [ first_ek_drawn |-> FALSE,
      deck_shuffled |-> TRUE,
      num_players |-> 0,
      num_eks_remaining |-> 0,
      opponent_card_history |-> EmptyDict,
      last_stf_step |-> 0 - 1,
      just_shuffled |-> FALSE,
      last_peeked_cards |-> <<>>,
      ek_on_top |-> FALSE ]

-----------------------------------------------------------------------------
(* Views, events and return values                                         *)

\* the opponents, in turn order after the agent
Opponents == <<"p1", "p2", "chatgpt_1", "p3">>

NoEvent == [event_type |-> "NONE", player_id |-> NoPlayer, card_types |-> <<>>,
            card_type |-> "", target_player_id |-> NoPlayer]

NoCall == [bot |-> "none", fn |-> "init"]
NoRet == [kind |-> "none"]

\* n copies of card type t
RECURSIVE Copies(_, _)
Copies(t, n) == IF n = 0 THEN <<>> ELSE <<t>> \o Copies(t, n - 1)

\* every tuple over S of length 0..n
RECURSIVE TuplesUpTo(_, _)
TuplesUpTo(S, n) ==
    IF n = 0 THEN {<<>>}
    ELSE LET shorter == TuplesUpTo(S, n - 1)
         IN  shorter \cup {Append(t, x) : t \in {u \in shorter : Len(u) = n - 1}, x \in S}

\* what _known_top_cards can hold: None, or the card types of a peek
KnownTops == {None} \cup TuplesUpTo({EXPLODING, TACOCAT}, PeekSize)

PileSizes == (0..MaxPile) \cup {ScenarioDeck}

\* a BotView: the agent's hand, the pile size and the living opponents
MakeView(hand, pile, nOthers, counts, turns) ==
    [ my_id |-> ME,
      my_hand |-> hand,
      draw_pile_count |-> pile,
      other_players |-> SubSeq(Opponents, 1, nOthers),
      turn_order |-> <<ME>> \o SubSeq(Opponents, 1, nOthers),
      other_player_card_counts |-> counts,
      my_turns_remaining |-> turns,
      discard_pile |-> <<>> ]

NoView == MakeView(<<>>, 0, 0, EmptyDict, 1)

-----------------------------------------------------------------------------
(* Knowledge trackers: on_event                                            *)

\* d[k] = v for a dict modelled as a function
Put(d, k, v) == [x \in (DOMAIN d) \cup {k} |-> IF x = k THEN v ELSE d[x]]

\* sum(counter.values())
RECURSIVE SumValues(_)
SumValues(c) ==
    IF DOMAIN c = {} THEN 0
    ELSE LET k == CHOOSE x \in DOMAIN c : TRUE
         IN  c[k] + SumValues([x \in (DOMAIN c) \ {k} |-> c[x]])

\* t[1:]
Rest(t) == SubSeq(t, 2, Len(t))

\* MastermindBot._update_opponent_model
Mastermind_update_opponent_model(s, player_id) ==
    LET history == Get(s.opponent_card_counts, player_id, EmptyDict)
        total == SumValues(history)
        defensive_cards == Get(history, SKIP, 0) + Get(history, ATTACK, 0)
                           + Get(history, SHUFFLE, 0) + Get(history, DEFUSE, 0)
        nope_count == Get(history, NOPE, 0)
    IN  IF total = 0 THEN s
        ELSE [s EXCEPT
                !.opponent_defense_prob =
                    Put(@, player_id, RMin(Rat(9, 10), Rat(defensive_cards, Max(1, total)))),
                !.opponent_nope_prob =
                    Put(@, player_id, RMin(Rat(8, 10), Rat(nope_count, Max(1, total))))]

\* self._opponent_defense_prob.get(pid, 0.5): the defensive probability
\* MastermindBot reads when it ranks targets and weighs a defensive attack
Mastermind_defense_prob(s, pid) == Get(s.opponent_defense_prob, pid, Rat(1, 2))

\* aaron_bot.MyBot.simulate_opponent
Aaron_simulate_opponent(s, player_id) ==
    LET history == Get(s.opponent_card_counts, player_id, EmptyDict)
        total_seen == SumValues(history)
        defensive_cards == Get(history, SKIP, 0) + Get(history, ATTACK, 0)
                               + Get(history, SHUFFLE, 0)
        nope_cards == Get(history, NOPE, 0)
    IN  IF total_seen = 0
        THEN [defensive |-> Rat(3, 10), nope |-> Rat(2, 10)]
        ELSE [defensive |-> RMin(Rat(8, 10), Rat(defensive_cards, Max(1, total_seen))),
              nope |-> RMin(Rat(7, 10), Rat(nope_cards, Max(1, total_seen)))]

\* Faulty trackers, against which the tracker properties are tested:
\* a reset that forgets the hazard-inserted event ...
Reset_on_shuffle_only(s, e) ==
    IF e.event_type = "DECK_SHUFFLED"
    THEN [s EXCEPT !.known_top_cards = None]
    ELSE s

\* ... and a peek tracker that also records what other players peeked
Track_any_peek(s, e, v) ==
    IF e.event_type = "CARDS_PEEKED"
    THEN [s EXCEPT !.known_top_cards = e.card_types]
    ELSE s

\* MastermindBot.on_event, "Track peeked cards"
Mastermind_track_peek(s, e, v) ==
    IF e.event_type = "CARDS_PEEKED" /\ e.player_id = v.my_id
    THEN [s EXCEPT !.known_top_cards = e.card_types, !.just_peeked = TRUE]
    ELSE s

\* MastermindBot.on_event, "Reset peek info on shuffle or EK insertion"
Mastermind_reset_peek(s, e) ==
    IF e.event_type \in {"DECK_SHUFFLED", "EXPLODING_KITTEN_INSERTED"}
    THEN [s EXCEPT !.known_top_cards = None, !.deck_shuffled = TRUE]
    ELSE s

\* MastermindBot.on_event, "Update peek info when cards are drawn"
Mastermind_pop_peek(s, e) ==
    IF e.event_type = "CARD_DRAWN" /\ Truthy(s.known_top_cards)
    THEN [s EXCEPT !.known_top_cards = IF Len(@) > 1 THEN Rest(@) ELSE None,
                   !.just_peeked = FALSE]
    ELSE s

\* MastermindBot.on_event
Mastermind_on_event(s, e, v) ==
    IF e.event_type = "BOT_CHAT" THEN s
    ELSE
    LET s1 == Mastermind_track_peek(s, e, v)
        s2 == Mastermind_reset_peek(s1, e)
        s3 == Mastermind_pop_peek(s2, e)
        s4 == IF e.event_type = "EXPLODING_KITTEN_DRAWN" /\ ~s3.first_ek_seen
              THEN [s3 EXCEPT !.first_ek_seen = TRUE, !.deck_shuffled = FALSE]
              ELSE s3
        s5 == IF e.event_type = "PLAYER_ELIMINATED"
              THEN [s4 EXCEPT !.kittens_removed = @ + 1, !.deck_shuffled = TRUE]
              ELSE s4
        pid == e.player_id
        s6 == IF /\ e.event_type = "CARD_PLAYED"
                 /\ pid # NoPlayer /\ pid # v.my_id /\ Contains(v.other_players, pid)
              THEN Mastermind_update_opponent_model(
                     [s5 EXCEPT
                        !.opponent_card_history =
                            Put(@, pid, Append(Get(@, pid, <<>>), e.card_type)),
                        !.opponent_card_counts =
                            Put(@, pid, Put(Get(@, pid, EmptyDict), e.card_type,
                                            Get(Get(@, pid, EmptyDict), e.card_type, 0) + 1))],
                     pid)
              ELSE s5
        s7 == IF e.event_type = "DEFUSE_USED" /\ pid # NoPlayer
              THEN [s6 EXCEPT !.opponent_defuses_used = Put(@, pid, TRUE),
                              !.defuses_used = IF pid = v.my_id THEN @ + 1 ELSE @]
              ELSE s6
        card_count == Get(v.other_player_card_counts, pid, 0)
        s8 == IF /\ e.event_type \in {"CARD_PLAYED", "CARD_DRAWN"}
                 /\ pid # NoPlayer /\ Contains(v.other_players, pid)
                 /\ card_count > 0
              THEN [s7 EXCEPT !.opponent_last_seen_hand_size = Put(@, pid, card_count)]
              ELSE s7
    IN  s8

\* aaron_bot.MyBot.on_event, the cards-peeked block
Aaron_track_peek(s, e, v) ==
    IF e.event_type = "CARDS_PEEKED" /\ e.player_id = v.my_id
    THEN [s EXCEPT !.known_top_cards = e.card_types]
    ELSE s

\* aaron_bot.MyBot.on_event, the deck-shuffled / hazard-inserted block
Aaron_reset_peek(s, e) ==
    IF e.event_type \in {"DECK_SHUFFLED", "EXPLODING_KITTEN_INSERTED"}
    THEN [s EXCEPT !.known_top_cards = None]
    ELSE s

\* aaron_bot.MyBot.on_event, "Drop the known top card when any draw occurs"
Aaron_pop_peek(s, e) ==
    IF e.event_type = "CARD_DRAWN" /\ Truthy(s.known_top_cards)
    THEN [s EXCEPT !.known_top_cards = Rest(@)]
    ELSE s

\* aaron_bot.MyBot.on_event
Aaron_on_event(s, e, v) ==
    IF e.event_type = "BOT_CHAT" THEN s
    ELSE
    LET s1 == Aaron_track_peek(s, e, v)
        s2 == Aaron_reset_peek(s1, e)
        s3 == Aaron_pop_peek(s2, e)
        s4 == IF e.event_type = "EXPLODING_KITTEN_DRAWN" /\ e.player_id # v.my_id
              THEN [s3 EXCEPT !.first_ek_seen_from_other = TRUE]
              ELSE s3
        s5 == IF e.event_type = "PLAYER_ELIMINATED"
              THEN [s4 EXCEPT !.kittens_removed = Max(0, @ + 1)]
              ELSE s4
        pid == e.player_id
        s6 == IF /\ e.event_type = "CARD_PLAYED"
                 /\ pid # NoPlayer /\ pid # v.my_id /\ Contains(v.other_players, pid)
              THEN [s5 EXCEPT
                      !.opponent_card_history =
                          Put(@, pid, Append(Get(@, pid, <<>>), e.card_type)),
                      !.opponent_card_counts =
                          Put(@, pid, Put(Get(@, pid, EmptyDict), e.card_type,
                                          Get(Get(@, pid, EmptyDict), e.card_type, 0) + 1))]
              ELSE s5
        s7 == IF e.event_type = "CARD_PLAYED" /\ e.card_type = DEFUSE
              THEN [s6 EXCEPT !.defuses_seen = @ + 1]
              ELSE s6
    IN  s7

\* TFTBot.on_event, "Track what we saw with See the Future"
TFT_track_peek(s, e, v) ==
    LET card_types == e.card_types
    IN  IF e.event_type = "CARDS_PEEKED" /\ e.player_id = v.my_id
        THEN [s EXCEPT
                !.last_peeked_cards = card_types,
                !.ek_on_top =
                    IF card_types # <<>> /\ Contains(card_types, EXPLODING)
                    THEN IF card_types[1] = EXPLODING THEN TRUE
                         ELSE IF RGe(TFT_calculate_ek_probability(s, v), Rat(40, 100))
                              THEN TRUE ELSE @
                    ELSE @]
        ELSE s

\* TFTBot.on_event (its chat lines change no field)
TFT_on_event(s, e, v) ==
    IF e.event_type = "BOT_CHAT" THEN s
    ELSE
    LET s1 == IF e.event_type = "EXPLODING_KITTEN_DRAWN" /\ ~s.first_ek_drawn
              THEN [s EXCEPT !.first_ek_drawn = TRUE, !.deck_shuffled = FALSE]
              ELSE s
        s2 == IF e.event_type = "DECK_SHUFFLED"
              THEN [s1 EXCEPT !.deck_shuffled = TRUE, !.ek_on_top = FALSE]
              ELSE s1
        s3 == TFT_track_peek(s2, e, v)
        s4 == IF e.event_type = "PLAYER_ELIMINATED"
              THEN [s3 EXCEPT !.deck_shuffled = TRUE]
              ELSE s3
        pid == e.player_id
        s5 == IF /\ e.event_type = "CARD_PLAYED"
                 /\ pid # v.my_id /\ Contains(v.other_players, pid)
              THEN [s4 EXCEPT !.opponent_card_history =
                                  Put(@, pid, Append(Get(@, pid, <<>>), e.card_type))]
              ELSE s4
        s6 == IF e.event_type = "GAME_START"
              THEN [s5 EXCEPT !.num_players = Len(v.other_players) + 1,
                              !.num_eks_remaining = Len(v.other_players) + 1 - 1]
              ELSE s5
    IN  s6

-----------------------------------------------------------------------------
(* Spec: the knowledge trackers driven by the events of a game.            *)
(* The engine (draw pile, players, event order) is not part of src/bots;   *)
(* it is modelled from the specification's interface: the draw pile is a   *)
(* sequence of card types, a peek reveals its top PeekSize cards to the    *)
(* peeking player, drawing a safe card emits card-drawn, drawing the       *)
(* hazard emits hazard-drawn followed by either neutralizer-used and       *)
(* hazard-inserted or by player-eliminated.  Every event is handed to      *)
(* each of the three trackers, with the view as it is after the event.     *)

MaxDeck == 3          \* cards in the draw pile of a tracked game
MaxOpponents == 2     \* opponents at the start of a tracked game
MaxPlays == 1         \* card-played events delivered in a tracked game
MaxSelfDefuses == 1   \* neutralizers the agent can use in a tracked game

PlayedKinds == {SKIP, NOPE, DEFUSE}

AllDecks == TuplesUpTo({EXPLODING, TACOCAT}, MaxDeck)

EKCount(d) == Cardinality({i \in 1..Len(d) : d[i] = EXPLODING})

\* the top n cards of the pile (fewer when the pile is smaller)
TopCards(d, n) == SubSeq(d, 1, Min(n, Len(d)))

\* the pile with card x inserted at 0-based position i
InsertAt(d, i, x) == SubSeq(d, 1, i) \o <<x>> \o SubSeq(d, i + 1, Len(d))

\* the orders a shuffle can leave the pile in
Shuffles(d) == {x \in AllDecks : Len(x) = Len(d) /\ EKCount(x) = EKCount(d)}

\* the sequence t without player p
RECURSIVE Without(_, _)
Without(t, p) ==
    IF t = <<>> THEN <<>>
    ELSE IF Head(t) = p THEN Without(Tail(t), p)
    ELSE <<Head(t)>> \o Without(Tail(t), p)

Range(t) == {t[i] : i \in 1..Len(t)}

\* the view of the agent for a pile and the living opponents
GameView(d, others) ==
    [ my_id |-> ME,
      my_hand |-> <<>>,
      draw_pile_count |-> Len(d),
      other_players |-> others,
      turn_order |-> <<ME>> \o others,
      other_player_card_counts |-> [p \in Range(others) |-> 2],
      my_turns_remaining |-> 1,
      discard_pile |-> <<>> ]

Idle == [stage |-> "none", player |-> NoPlayer, plays |-> 0, self_defuses |-> 0]

\* who can act: the agent and the living opponents
Living == {ME} \cup Range(view.other_players)

GameEvent(type, player) == [NoEvent EXCEPT !.event_type = type, !.player_id = player]

\* the engine hands event e to on_event of every tracker, with view v
Deliver(e, v) ==
    /\ mastermind' = Mastermind_on_event(mastermind, e, v)
    /\ aaron' = Aaron_on_event(aaron, e, v)
    /\ tft' = TFT_on_event(tft, e, v)
    /\ event' = e
    /\ view' = v
    /\ call' = [bot |-> "all", fn |-> "on_event"]
    /\ ret' = NoRet

Init ==
    \E n \in 1..MaxOpponents, d \in AllDecks :
        /\ Len(d) >= n /\ EKCount(d) = n
        /\ mastermind = MastermindInit
        /\ aaron = AaronInit
        /\ tft = TFTInit
        /\ deck = d
        /\ view = GameView(d, SubSeq(Opponents, 1, n))
        /\ pending = [Idle EXCEPT !.stage = "start"]
        /\ event = NoEvent
        /\ call = NoCall
        /\ ret = NoRet

GameStart ==
    /\ pending.stage = "start"
    /\ pending' = [pending EXCEPT !.stage = "none"]
    /\ Deliver(GameEvent("GAME_START", NoPlayer), view)
    /\ UNCHANGED deck

CardsPeeked ==
    \E p \in Living :
        /\ pending.stage = "none"
        /\ Deliver([GameEvent("CARDS_PEEKED", p) EXCEPT
                        !.card_types = TopCards(deck, PeekSize)], view)
        /\ UNCHANGED <<deck, pending>>

CardDrawn ==
    \E p \in Living :
        /\ pending.stage = "none"
        /\ deck # <<>> /\ Head(deck) # EXPLODING
        /\ deck' = Tail(deck)
        /\ Deliver([GameEvent("CARD_DRAWN", p) EXCEPT !.card_type = Head(deck)],
                   GameView(Tail(deck), view.other_players))
        /\ UNCHANGED pending

ExplodingKittenDrawn ==
    \E p \in Living :
        /\ pending.stage = "none"
        /\ deck # <<>> /\ Head(deck) = EXPLODING
        /\ deck' = Tail(deck)
        /\ pending' = [pending EXCEPT !.stage = "drawn", !.player = p]
        /\ Deliver(GameEvent("EXPLODING_KITTEN_DRAWN", p),
                   GameView(Tail(deck), view.other_players))

DefuseUsed ==
    /\ pending.stage = "drawn"
    /\ pending.player = ME => pending.self_defuses < MaxSelfDefuses
    /\ pending' = [pending EXCEPT
                      !.stage = "defused",
                      !.self_defuses = IF pending.player = ME THEN @ + 1 ELSE @]
    /\ Deliver(GameEvent("DEFUSE_USED", pending.player), view)
    /\ UNCHANGED deck

ExplodingKittenInserted ==
    \E i \in 0..Len(deck) :
        /\ pending.stage = "defused"
        /\ deck' = InsertAt(deck, i, EXPLODING)
        /\ pending' = [pending EXCEPT !.stage = "none", !.player = NoPlayer]
        /\ Deliver(GameEvent("EXPLODING_KITTEN_INSERTED", pending.player),
                   GameView(InsertAt(deck, i, EXPLODING), view.other_players))

PlayerEliminated ==
    /\ pending.stage = "drawn"
    /\ pending' = [pending EXCEPT
                      !.stage = IF pending.player = ME THEN "over" ELSE "none",
                      !.player = NoPlayer]
    /\ Deliver(GameEvent("PLAYER_ELIMINATED", pending.player),
               GameView(deck, Without(view.other_players, pending.player)))
    /\ UNCHANGED deck

DeckShuffled ==
    \E p \in Living, d \in Shuffles(deck) :
        /\ pending.stage = "none"
        /\ deck' = d
        /\ Deliver(GameEvent("DECK_SHUFFLED", p), view)
        /\ UNCHANGED pending

CardPlayed ==
    \E p \in Living, k \in PlayedKinds :
        /\ pending.stage = "none"
        /\ pending.plays < MaxPlays
        /\ pending' = [pending EXCEPT !.plays = @ + 1]
        /\ Deliver([GameEvent("CARD_PLAYED", p) EXCEPT !.card_type = k], view)
        /\ UNCHANGED deck

BotChat ==
    \E p \in Living :
        /\ pending.stage = "none"
        /\ Deliver(GameEvent("BOT_CHAT", p), view)
        /\ UNCHANGED <<deck, pending>>

Next ==
    \/ GameStart
    \/ CardsPeeked
    \/ CardDrawn
    \/ ExplodingKittenDrawn
    \/ DefuseUsed
    \/ ExplodingKittenInserted
    \/ PlayerEliminated
    \/ DeckShuffled
    \/ CardPlayed
    \/ BotChat

Spec == Init /\ [][Next]_vars

-----------------------------------------------------------------------------
(* SpecRisk: the three risk estimators applied to bounded inputs           *)

InitRisk ==
    \E ipc \in {NoCount} \cup (2..MaxPlayers), kr \in 0..MaxRemoved, kt \in KnownTops,
       pile \in PileSizes, d \in 0..MaxDefuses, n \in 1..(MaxPlayers - 1) :
        /\ mastermind = [MastermindInit EXCEPT !.initial_player_count = ipc,
                                               !.kittens_removed = kr,
                                               !.known_top_cards = kt]
        /\ aaron = [AaronInit EXCEPT !.initial_player_count = ipc,
                                     !.kittens_removed = kr,
                                     !.known_top_cards = kt]
        /\ tft = [TFTInit EXCEPT !.num_players = IF ipc = NoCount THEN 0 ELSE ipc]
        /\ view = MakeView(Copies(DEFUSE, d), pile, n, EmptyDict, 1)
        /\ deck = <<>>
        /\ pending = Idle
        /\ event = NoEvent
        /\ call = NoCall
        /\ ret = NoRet

RiskMastermind ==
    /\ call = NoCall
    /\ call' = [bot |-> "mastermind", fn |-> "calculate_ek_risk"]
    /\ ret' = [kind |-> "risk", value |-> Mastermind_calculate_ek_risk(mastermind, view)]
    /\ UNCHANGED <<mastermind, aaron, tft, view, deck, pending, event>>

RiskAaron ==
    /\ call = NoCall
    /\ call' = [bot |-> "aaron", fn |-> "calculate_ek_risk"]
    /\ ret' = [kind |-> "risk", value |-> Aaron_calculate_ek_risk(aaron, view)]
    /\ UNCHANGED <<mastermind, aaron, tft, view, deck, pending, event>>

RiskTFT ==
    /\ call = NoCall
    /\ call' = [bot |-> "tft", fn |-> "calculate_ek_risk"]
    /\ ret' = [kind |-> "risk", value |-> TFT_calculate_ek_probability(tft, view)]
    /\ UNCHANGED <<mastermind, aaron, tft, view, deck, pending, event>>

NextRisk == RiskMastermind \/ RiskAaron \/ RiskTFT

SpecRisk == InitRisk /\ [][NextRisk]_vars

\* the known-top sequence the called estimator read
KnownTopOf(bot) ==
    IF bot = "mastermind" THEN mastermind.known_top_cards
    ELSE IF bot = "aaron" THEN aaron.known_top_cards
    ELSE tft.last_peeked_cards

PeekAware == {"mastermind", "aaron"}

-----------------------------------------------------------------------------
(* Claims about the risk estimators (checked under SpecRisk)               *)

\* C3: the value returned by each of the three risk estimators lies in [0, 1].
C3_RiskInUnitInterval ==
    ret.kind = "risk" => RLe(RZero, ret.value) /\ RLe(ret.value, ROne)

\* C4: with an empty draw pile every risk estimator returns exactly 0.
C4_EmptyPileRiskZero ==
    (ret.kind = "risk" /\ view.draw_pile_count = 0) => ret.value = RZero

\* C5: with a non-empty pile and the first hazard of the known-top sequence at
\* 0-based index i, the peek-aware estimators return 1 for i = 0 and 1/(i+1)
\* for i >= 1, whatever the length of the sequence.
C5_RiskByHazardIndex ==
    (/\ ret.kind = "risk"
     /\ call.bot \in PeekAware
     /\ view.draw_pile_count > 0
     /\ Truthy(KnownTopOf(call.bot))
     /\ Contains(KnownTopOf(call.bot), EXPLODING))
    => ret.value = Rat(1, IndexOf(KnownTopOf(call.bot), EXPLODING) + 1)

-----------------------------------------------------------------------------
(* Claims about the knowledge trackers (checked under Spec)                *)

KnownLen(k) == IF k = None THEN 0 ELSE Len(k)

ResetEvents == {"DECK_SHUFFLED", "EXPLODING_KITTEN_INSERTED"}

SelfPeek(e) == e.event_type = "CARDS_PEEKED" /\ e.player_id = ME

OtherPeek(e) == e.event_type = "CARDS_PEEKED" /\ e.player_id # ME

\* C8: once on_event has processed a deck-reshuffled or hazard-inserted event
\* the known-top sequence of MastermindBot and of the aaron bot is unknown,
\* whatever it held before, and it stays unknown under every later event
\* until the next cards-peeked event of the agent itself.
C8_ResetUntilNextSelfPeek ==
    /\ [](event.event_type \in ResetEvents
            => mastermind.known_top_cards = None /\ aaron.known_top_cards = None)
    /\ [][ /\ (mastermind.known_top_cards = None /\ ~SelfPeek(event'))
                => mastermind'.known_top_cards = None
           /\ (aaron.known_top_cards = None /\ ~SelfPeek(event'))
                => aaron'.known_top_cards = None ]_vars

\* a hazard was put back after the agent had peeked, and a later event
\* (not a peek of the agent) has been processed with the belief still unknown
C8_Witness ==
    /\ tft.last_peeked_cards # <<>>
    /\ pending.self_defuses + Len(deck) > 0
    /\ event.event_type \in {"CARD_DRAWN", "CARDS_PEEKED", "CARD_PLAYED"}
    /\ event.player_id # ME
    /\ mastermind.deck_shuffled /\ mastermind.defuses_used > 0
    /\ mastermind.known_top_cards = None /\ aaron.known_top_cards = None

\* C9: a cards-peeked event of another player leaves the known-top belief
\* unchanged (the known-top sequence of MastermindBot and the aaron bot, the
\* last-peeked list and ek_on_top of TFTBot); a cards-peeked event of the
\* agent itself sets the known-top sequence to exactly the revealed sequence.
C9_PeekOwnership ==
    /\ [](SelfPeek(event)
            => /\ mastermind.known_top_cards = event.card_types
               /\ aaron.known_top_cards = event.card_types
               /\ tft.last_peeked_cards = event.card_types)
    /\ [][ OtherPeek(event')
            => /\ mastermind'.known_top_cards = mastermind.known_top_cards
               /\ aaron'.known_top_cards = aaron.known_top_cards
               /\ tft'.last_peeked_cards = tft.last_peeked_cards
               /\ tft'.ek_on_top = tft.ek_on_top ]_vars

\* another player peeked while the agent held a belief that differs from
\* what that player was shown, and the belief is still in place
C9_Witness ==
    /\ OtherPeek(event)
    /\ Truthy(mastermind.known_top_cards) /\ Truthy(aaron.known_top_cards)
    /\ mastermind.known_top_cards # event.card_types
    /\ aaron.known_top_cards # event.card_types
    /\ tft.last_peeked_cards # event.card_types

\* C10: while the game runs, between two steps of the engine, the known-top
\* sequence of MastermindBot and of the aaron bot is never longer than the
\* draw pile count of the view.
C10_KnownTopWithinPile ==
    (pending.stage = "none" /\ view.other_players # <<>>)
    => /\ KnownLen(mastermind.known_top_cards) <= view.draw_pile_count
       /\ KnownLen(aaron.known_top_cards) <= view.draw_pile_count

-----------------------------------------------------------------------------
(* Actions returned by take_turn, and helpers shared by the policies       *)

\* Python's None where an Action is expected
NoAction == [kind |-> "None"]

\* a card is named by its position in view.my_hand
DrawCardAction == [kind |-> "Draw"]
PlayCardAction(card, target) == [kind |-> "PlayCard", card |-> card, target |-> target]
PlayComboAction(cards, target) == [kind |-> "PlayCombo", cards |-> cards, target |-> target]

\* a method's effect: the instance after it, and the action it returned
Out(s, a) == [s |-> s, a |-> a]

\* view.other_player_card_counts.get(pid, 0)
Count(v, pid) == Get(v.other_player_card_counts, pid, 0)

\* min(t, key=card count) and max(t, key=card count): the first such element
MinByCount(v, t) ==
    t[CHOOSE i \in 1..Len(t) :
        \A j \in 1..Len(t) : /\ Count(v, t[i]) <= Count(v, t[j])
                             /\ (j < i => Count(v, t[j]) > Count(v, t[i]))]

MaxByCount(v, t) ==
    t[CHOOSE i \in 1..Len(t) :
        \A j \in 1..Len(t) : /\ Count(v, t[i]) >= Count(v, t[j])
                             /\ (j < i => Count(v, t[j]) < Count(v, t[i]))]

\* the opponents holding at least one card
WithCards(v) == SelectSeq(v.other_players, LAMBDA pid : Count(v, pid) > 0)

\* the family of collectible cat cards, in the order used to build hands
CatOrder == <<TACOCAT, BEARDCAT, "CattermelonCard", "HairyPotatoCatCard",
              "RainbowRalphingCatCard", "ZombieCatCard">>

CatKinds == {CatOrder[i] : i \in 1..Len(CatOrder)}

\* Card.can_combo() by card type (the Card class is not part of src/bots;
\* the collectible cat cards are the combo-eligible kinds)
can_combo(t) == t \in CatKinds

\* the hand positions of the cards that can combo, from position i on
RECURSIVE ComboPositions(_, _)
ComboPositions(hand, i) ==
    IF i > Len(hand) THEN <<>>
    ELSE (IF can_combo(hand[i]) THEN <<i>> ELSE <<>>) \o ComboPositions(hand, i + 1)

\* by_type.keys(): the first card of each combo-eligible type, in the order
\* the types are met in the hand
ComboKeys(hand) ==
    SelectSeq(ComboPositions(hand, 1),
              LAMBDA p : \A q \in 1..(p - 1) : hand[q] # hand[p])

\* the loop over by_type.items(): a triple or a pair for each type
RECURSIVE PairsAndTriples(_, _)
PairsAndTriples(hand, keys) ==
    IF keys = <<>> THEN <<>>
    ELSE LET cards_of_type == PositionsFrom(hand, hand[Head(keys)], 1)
             found == IF Len(cards_of_type) >= 3
                      THEN <<[combo_type |-> "three_of_a_kind",
                              cards |-> SubSeq(cards_of_type, 1, 3)]>>
                      ELSE IF Len(cards_of_type) >= 2
                      THEN <<[combo_type |-> "two_of_a_kind",
                              cards |-> SubSeq(cards_of_type, 1, 2)]>>
                      ELSE <<>>
         IN  found \o PairsAndTriples(hand, Tail(keys))

\* the five-different combo: one card of each of the first five types
FiveDifferent(hand) ==
    LET keys == ComboKeys(hand)
    IN  IF Len(keys) >= 5
        THEN <<[combo_type |-> "five_different", cards |-> SubSeq(keys, 1, 5)]>>
        ELSE <<>>

\* faulty variant: a pair is also reported for a kind that yields a triple
Pairs_beside_triples(hand) ==
    LET keys == ComboKeys(hand)
        tripled == SelectSeq(keys, LAMBDA p : Len(PositionsFrom(hand, hand[p], 1)) >= 3)
        pairs == [i \in 1..Len(tripled) |->
                    [combo_type |-> "two_of_a_kind",
                     cards |-> SubSeq(PositionsFrom(hand, hand[tripled[i]], 1), 1, 2)]]
    IN  PairsAndTriples(hand, keys) \o pairs \o FiveDifferent(hand)

\* faulty variant: the five-different combo is reported before the others
Five_different_first(hand) ==
    FiveDifferent(hand) \o PairsAndTriples(hand, ComboKeys(hand))

\* the combos of one kind, in list order
OfKind(combos, kind) == SelectSeq(combos, LAMBDA c : c.combo_type = kind)

\* view.discard_pile[-1].card_type if view.discard_pile else None
TopDiscard(v) ==
    IF v.discard_pile = <<>> THEN "" ELSE v.discard_pile[Len(v.discard_pile)]

-----------------------------------------------------------------------------
(* MastermindBot: take_turn                                                *)

\* MastermindBot._find_all_combos
Mastermind_find_all_combos(hand) ==
    PairsAndTriples(hand, ComboKeys(hand)) \o FiveDifferent(hand)

\* MastermindBot._update_game_state
Mastermind_update_game_state(s, v) ==
    [s EXCEPT !.initial_player_count = IF @ = NoCount THEN Len(v.turn_order) ELSE @,
              !.my_defuses = count_cards_of_type(v, DEFUSE)]

\* faulty variant: the middle phase lasts down to half of the initial players
Phase_with_half_threshold(s, v) ==
    LET alive_players == Len(v.other_players) + 1
        total_players == IF s.initial_player_count # NoCount /\ s.initial_player_count # 0
                         THEN s.initial_player_count ELSE alive_players
    IN  [s EXCEPT !.game_phase =
            IF alive_players = total_players THEN "early"
            ELSE IF alive_players * 2 >= total_players THEN "mid"
            ELSE "late"]

\* MastermindBot._update_game_phase
Mastermind_update_game_phase(s, v) ==
    LET alive_players == Len(v.other_players) + 1
        total_players == IF s.initial_player_count # NoCount /\ s.initial_player_count # 0
                         THEN s.initial_player_count ELSE alive_players
    IN  [s EXCEPT !.game_phase =
            IF alive_players = total_players THEN "early"
            ELSE IF alive_players * 10 >= total_players * 6 THEN "mid"
            ELSE "late"]

\* MastermindBot._choose_best_target
Mastermind_choose_best_target(s, v, prefer_weak) ==
    LET valid_targets == WithCards(v)
        defense(pid) == Mastermind_defense_prob(s, pid)
        less(a, b) == \/ Count(v, a) < Count(v, b)
                      \/ Count(v, a) = Count(v, b) /\ RLt(defense(a), defense(b))
    IN  IF v.other_players = <<>> THEN NoPlayer
        ELSE IF valid_targets = <<>> THEN NoPlayer
        ELSE IF prefer_weak
        THEN valid_targets[CHOOSE i \in 1..Len(valid_targets) :
                \A j \in 1..Len(valid_targets) :
                    /\ ~less(valid_targets[j], valid_targets[i])
                    /\ (j < i => less(valid_targets[i], valid_targets[j]))]
        ELSE MaxByCount(v, valid_targets)

\* MastermindBot._choose_weakest_target
Mastermind_choose_weakest_target(s, v) ==
    LET valid_targets == WithCards(v)
        weak_candidates ==
            SelectSeq(valid_targets,
                      LAMBDA pid : ~Get(s.opponent_defuses_used, pid, FALSE))
    IN  IF v.other_players = <<>> THEN NoPlayer
        ELSE IF valid_targets = <<>> THEN NoPlayer
        ELSE IF weak_candidates # <<>> THEN MinByCount(v, weak_candidates)
        ELSE MinByCount(v, valid_targets)

\* MastermindBot._try_combo_against_targets
Mastermind_try_combo_against_targets(v, targets) ==
    LET combos == Mastermind_find_all_combos(v.my_hand)
        three == OfKind(combos, "three_of_a_kind")
        two == OfKind(combos, "two_of_a_kind")
    IN  IF targets = <<>> THEN NoAction
        ELSE IF combos = <<>> THEN NoAction
        ELSE IF three # <<>> THEN PlayComboAction(three[1].cards, MinByCount(v, targets))
        ELSE IF two # <<>> THEN PlayComboAction(two[1].cards, MinByCount(v, targets))
        ELSE NoAction

\* MastermindBot._avoid_ek_on_top
Mastermind_avoid_ek_on_top(s, v) ==
    LET skip_cards == get_cards_of_type(v, SKIP)
        shuffle_cards == get_cards_of_type(v, SHUFFLE)
        attack_cards == get_cards_of_type(v, ATTACK)
        target == Mastermind_choose_best_target(s, v, TRUE)
    IN  IF skip_cards # <<>> THEN Out(s, PlayCardAction(skip_cards[1], NoPlayer))
        ELSE IF shuffle_cards # <<>>
        THEN Out([s EXCEPT !.last_shuffle_turn = s.turn_count],
                 PlayCardAction(shuffle_cards[1], NoPlayer))
        ELSE IF attack_cards # <<>> /\ v.other_players # <<>> /\ target # NoPlayer
        THEN Out(s, PlayCardAction(attack_cards[1], target))
        ELSE Out(s, DrawCardAction)

\* MastermindBot._try_best_combo
Mastermind_try_best_combo(s, v) ==
    LET combos == Mastermind_find_all_combos(v.my_hand)
        valid_targets == WithCards(v)
        best == Mastermind_choose_best_target(s, v, FALSE)
        target == IF best = NoPlayer THEN valid_targets[1] ELSE best
        three == OfKind(combos, "three_of_a_kind")
        two == OfKind(combos, "two_of_a_kind")
        five == OfKind(combos, "five_different")
    IN  IF v.other_players = <<>> THEN NoAction
        ELSE IF combos = <<>> THEN NoAction
        ELSE IF valid_targets = <<>> THEN NoAction
        ELSE IF three # <<>> THEN PlayComboAction(three[1].cards, target)
        ELSE IF two # <<>> THEN PlayComboAction(two[1].cards, target)
        ELSE IF five # <<>> /\ TopDiscard(v) \in {DEFUSE, NOPE, SHUFFLE, STF}
        THEN PlayComboAction(five[1].cards, NoPlayer)
        ELSE NoAction

\* MastermindBot._try_steal
Mastermind_try_steal(s, v, ek_risk) ==
    LET combo_action == Mastermind_try_best_combo(s, v)
        favor_cards == get_cards_of_type(v, FAVOR)
        valid_targets == WithCards(v)
        weak_targets == SelectSeq(valid_targets, LAMBDA pid : Count(v, pid) <= 3)
        target == IF weak_targets # <<>> THEN MinByCount(v, weak_targets)
                  ELSE MaxByCount(v, valid_targets)
        my_cards == Len(v.my_hand)
        target_cards == Count(v, target)
        should_steal == \/ RGe(ek_risk, Rat(30, 100))
                        \/ my_cards < 4
                        \/ target_cards >= my_cards + 2
                        \/ target_cards <= 3
    IN  IF v.other_players = <<>> THEN NoAction
        ELSE IF combo_action # NoAction THEN combo_action
        ELSE IF favor_cards = <<>> THEN NoAction
        ELSE IF valid_targets = <<>> THEN NoAction
        ELSE IF should_steal THEN PlayCardAction(favor_cards[1], target)
        ELSE NoAction

\* MastermindBot._play_defensive
Mastermind_play_defensive(s, v) ==
    LET skip_cards == get_cards_of_type(v, SKIP)
        attack_cards == get_cards_of_type(v, ATTACK)
        target == Mastermind_choose_weakest_target(s, v)
    IN  IF skip_cards # <<>> THEN PlayCardAction(skip_cards[1], NoPlayer)
        ELSE IF /\ attack_cards # <<>> /\ v.other_players # <<>> /\ target # NoPlayer
                /\ \/ v.draw_pile_count <= 15
                   \/ RLt(Mastermind_defense_prob(s, target), Rat(4, 10))
        THEN PlayCardAction(attack_cards[1], target)
        ELSE NoAction

\* MastermindBot._midgame_strategy
Mastermind_midgame_strategy(s, v, ek_risk) ==
    LET known == s.known_top_cards
        weak_targets ==
            SelectSeq(v.other_players,
                      LAMBDA pid : /\ Count(v, pid) <= 3
                                   /\ ~Get(s.opponent_defuses_used, pid, FALSE))
        combo_action == Mastermind_try_combo_against_targets(v, weak_targets)
        favor_cards == get_cards_of_type(v, FAVOR)
        stf_cards == get_cards_of_type(v, STF)
        shuffle_cards == get_cards_of_type(v, SHUFFLE)
        steal_action == Mastermind_try_steal(s, v, ek_risk)
        defensive == Mastermind_play_defensive(s, v)
    IN  IF Truthy(known) /\ known[1] = EXPLODING THEN Mastermind_avoid_ek_on_top(s, v)
        ELSE IF weak_targets # <<>> /\ combo_action # NoAction THEN Out(s, combo_action)
        ELSE IF weak_targets # <<>> /\ favor_cards # <<>>
        THEN Out(s, PlayCardAction(favor_cards[1], MinByCount(v, weak_targets)))
        ELSE IF /\ ~Truthy(known) /\ ~s.just_peeked /\ RGe(ek_risk, Rat(25, 100))
                /\ stf_cards # <<>> /\ v.draw_pile_count > 0
        THEN Out([s EXCEPT !.just_peeked = TRUE], PlayCardAction(stf_cards[1], NoPlayer))
        ELSE IF /\ Truthy(known) /\ Contains(known, EXPLODING)
                /\ shuffle_cards # <<>> /\ s.turn_count > s.last_shuffle_turn + 2
        THEN Out([s EXCEPT !.last_shuffle_turn = s.turn_count],
                 PlayCardAction(shuffle_cards[1], NoPlayer))
        ELSE IF /\ Len(v.my_hand) >= 6 /\ RLt(ek_risk, Rat(35, 100))
                /\ steal_action # NoAction
        THEN Out(s, steal_action)
        ELSE IF RGe(ek_risk, Rat(50, 100)) /\ defensive # NoAction THEN Out(s, defensive)
        ELSE IF RLt(ek_risk, Rat(40, 100)) THEN Out(s, DrawCardAction)
        ELSE IF defensive # NoAction THEN Out(s, defensive)
        ELSE Out(s, DrawCardAction)

\* MastermindBot._early_game_strategy
Mastermind_early_game_strategy(s, v, ek_risk) ==
    LET known == s.known_top_cards
        stf_cards == get_cards_of_type(v, STF)
        weak_targets == SelectSeq(v.other_players, LAMBDA pid : Count(v, pid) <= 2)
        combo_action == Mastermind_try_combo_against_targets(v, weak_targets)
    IN  IF s.turn_count = 1 THEN Out(s, DrawCardAction)
        ELSE IF Truthy(known) /\ known[1] = EXPLODING THEN Mastermind_avoid_ek_on_top(s, v)
        ELSE IF /\ ~Truthy(known) /\ ~s.just_peeked
                /\ stf_cards # <<>> /\ v.draw_pile_count > 0 /\ RGe(ek_risk, Rat(20, 100))
        THEN Out([s EXCEPT !.just_peeked = TRUE], PlayCardAction(stf_cards[1], NoPlayer))
        ELSE IF weak_targets # <<>> /\ combo_action # NoAction THEN Out(s, combo_action)
        ELSE IF RLt(ek_risk, Rat(25, 100)) /\ ~s.first_ek_seen THEN Out(s, DrawCardAction)
        ELSE Mastermind_midgame_strategy(s, v, ek_risk)

\* MastermindBot._late_game_strategy
Mastermind_late_game_strategy(s, v, ek_risk) ==
    LET known == s.known_top_cards
        defensive == Mastermind_play_defensive(s, v)
        attack_cards == get_cards_of_type(v, ATTACK)
        weakest == Mastermind_choose_weakest_target(s, v)
        shuffle_cards == get_cards_of_type(v, SHUFFLE)
        weak_targets == SelectSeq(v.other_players, LAMBDA pid : Count(v, pid) <= 2)
        combo_action == Mastermind_try_combo_against_targets(v, weak_targets)
        stf_cards == get_cards_of_type(v, STF)
    IN  IF Truthy(known) /\ known[1] = EXPLODING THEN Mastermind_avoid_ek_on_top(s, v)
        ELSE IF /\ RGe(ek_risk, Rat(60, 100)) /\ v.draw_pile_count <= 10
                /\ defensive # NoAction
        THEN Out(s, defensive)
        ELSE IF /\ RGe(ek_risk, Rat(50, 100)) /\ v.draw_pile_count <= 15
                /\ Len(v.other_players) > 1
                /\ attack_cards # <<>> /\ weakest # NoPlayer
        THEN Out(s, PlayCardAction(attack_cards[1], weakest))
        ELSE IF /\ shuffle_cards # <<>> /\ RGe(ek_risk, Rat(50, 100))
                /\ s.turn_count > s.last_shuffle_turn + 1
        THEN Out([s EXCEPT !.last_shuffle_turn = s.turn_count],
                 PlayCardAction(shuffle_cards[1], NoPlayer))
        ELSE IF weak_targets # <<>> /\ combo_action # NoAction THEN Out(s, combo_action)
        ELSE IF RGe(ek_risk, Rat(45, 100)) /\ defensive # NoAction THEN Out(s, defensive)
        ELSE IF ~Truthy(known) /\ stf_cards # <<>> /\ v.draw_pile_count > 0
        THEN Out(s, PlayCardAction(stf_cards[1], NoPlayer))
        ELSE Out(s, DrawCardAction)

\* MastermindBot.take_turn
Mastermind_take_turn(s, v) ==
    LET s1 == Mastermind_update_game_state(s, v)
        s2 == [s1 EXCEPT !.turn_count = @ + 1]
        s3 == Mastermind_update_game_phase(s2, v)
        ek_risk == Mastermind_calculate_ek_risk(s3, v)
    IN  IF s3.game_phase = "early" THEN Mastermind_early_game_strategy(s3, v, ek_risk)
        ELSE IF s3.game_phase = "mid" THEN Mastermind_midgame_strategy(s3, v, ek_risk)
        ELSE Mastermind_late_game_strategy(s3, v, ek_risk)

-----------------------------------------------------------------------------
(* aaron_bot.MyBot: take_turn                                              *)

\* pid.startswith(STRATEGIC_BOT_PREFIX), over the player ids of the model
StartsWithStrategicPrefix(pid) == pid \in {"chatgpt_1"}

\* the loop over by_type.items() of the aaron bot: by_type counts the
\* candidates of a type, cards_of_type lists them in hand order
RECURSIVE Aaron_pairs_and_triples(_, _, _)
Aaron_pairs_and_triples(hand, combo_candidates, keys) ==
    IF keys = <<>> THEN <<>>
    ELSE LET card_type == hand[Head(keys)]
             cards_of_type == SelectSeq(combo_candidates, LAMBDA p : hand[p] = card_type)
             count == Len(cards_of_type)
             found == IF count >= 3
                      THEN <<[combo_type |-> "three_of_a_kind",
                              cards |-> SubSeq(cards_of_type, 1, 3)]>>
                      ELSE IF count >= 2
                      THEN <<[combo_type |-> "two_of_a_kind",
                              cards |-> SubSeq(cards_of_type, 1, 2)]>>
                      ELSE <<>>
         IN  found \o Aaron_pairs_and_triples(hand, combo_candidates, Tail(keys))

\* the loop that fills unique_cards: the first candidate of each type,
\* left as soon as five cards are collected
RECURSIVE Aaron_unique_cards(_, _, _, _)
Aaron_unique_cards(hand, combo_candidates, keys, unique_cards) ==
    IF keys = <<>> \/ Len(unique_cards) >= 5 THEN unique_cards
    ELSE LET of_type == SelectSeq(combo_candidates, LAMBDA p : hand[p] = hand[Head(keys)])
         IN  Aaron_unique_cards(hand, combo_candidates, Tail(keys),
                                Append(unique_cards, of_type[1]))

\* aaron_bot.MyBot._find_possible_combos
Aaron_find_possible_combos(hand) ==
    LET combo_candidates == ComboPositions(hand, 1)
        keys == ComboKeys(hand)
        unique_cards == Aaron_unique_cards(hand, combo_candidates, keys, <<>>)
    IN  IF combo_candidates = <<>> THEN <<>>
        ELSE Aaron_pairs_and_triples(hand, combo_candidates, keys)
             \o (IF Len(keys) >= 5 /\ Len(unique_cards) >= 5
                 THEN <<[combo_type |-> "five_different",
                         cards |-> SubSeq(unique_cards, 1, 5)]>>
                 ELSE <<>>)

\* aaron_bot.MyBot._find_strategic_bot_id
Aaron_find_strategic_bot_id(v) ==
    LET found == SelectSeq(v.other_players, StartsWithStrategicPrefix)
    IN  IF found = <<>> THEN NoPlayer ELSE found[1]

\* aaron_bot.MyBot._has_strategic_bot
Aaron_has_strategic_bot(v) == Aaron_find_strategic_bot_id(v) # NoPlayer

\* aaron_bot.MyBot._choose_attack_target
Aaron_choose_attack_target(v, prefer_weak_defense) ==
    LET strategic == Aaron_find_strategic_bot_id(v)
    IN  IF v.other_players = <<>> THEN NoPlayer
        ELSE IF strategic # NoPlayer THEN strategic
        ELSE IF prefer_weak_defense THEN MinByCount(v, v.other_players)
        ELSE MaxByCount(v, v.other_players)

\* aaron_bot.MyBot._steal_for_value
Aaron_steal_for_value(v, bias_for_stf) ==
    LET target == Aaron_choose_attack_target(v, bias_for_stf)
        combos == Aaron_find_possible_combos(v.my_hand)
        favor_cards == get_cards_of_type(v, FAVOR)
    IN  IF v.other_players = <<>> THEN NoAction
        ELSE IF target = NoPlayer THEN NoAction
        ELSE IF combos # <<>> THEN PlayComboAction(combos[1].cards, target)
        ELSE IF favor_cards # <<>> /\ ~Aaron_has_strategic_bot(v)
        THEN PlayCardAction(favor_cards[1], target)
        ELSE NoAction

\* aaron_bot.MyBot.play_defensive
Aaron_play_defensive(v) ==
    LET skip_cards == get_cards_of_type(v, SKIP)
        attack_cards == get_cards_of_type(v, ATTACK)
        target == Aaron_choose_attack_target(v, FALSE)
    IN  IF skip_cards # <<>> THEN PlayCardAction(skip_cards[1], NoPlayer)
        ELSE IF attack_cards # <<>> /\ v.other_players # <<>>
        THEN IF Aaron_has_strategic_bot(v) THEN NoAction
             ELSE IF target # NoPlayer THEN PlayCardAction(attack_cards[1], target)
             ELSE NoAction
        ELSE NoAction

\* aaron_bot.MyBot.play_aggressive
Aaron_play_aggressive(v, ek_probability) ==
    LET steal == Aaron_steal_for_value(v, FALSE)
        attack_cards == get_cards_of_type(v, ATTACK)
        target == Aaron_choose_attack_target(v, TRUE)
    IN  IF steal # NoAction THEN steal
        ELSE IF attack_cards # <<>> /\ v.other_players # <<>>
        THEN IF Aaron_has_strategic_bot(v) THEN NoAction
             ELSE IF target # NoPlayer THEN PlayCardAction(attack_cards[1], target)
             ELSE NoAction
        ELSE NoAction

\* aaron_bot.MyBot._try_play_best_combo
Aaron_try_play_best_combo(v) ==
    LET first_choice == Aaron_choose_attack_target(v, FALSE)
        with_cards == WithCards(v)
        target == IF Count(v, first_choice) <= 0 THEN with_cards[1] ELSE first_choice
        combos == Aaron_find_possible_combos(v.my_hand)
        premium == {DEFUSE, NOPE, SKIP, ATTACK, SHUFFLE, STF, FAVOR}
        three == OfKind(combos, "three_of_a_kind")
        two == OfKind(combos, "two_of_a_kind")
        five == OfKind(combos, "five_different")
    IN  IF v.other_players = <<>> THEN NoAction
        ELSE IF first_choice = NoPlayer THEN NoAction
        ELSE IF Count(v, first_choice) <= 0 /\ with_cards = <<>> THEN NoAction
        ELSE IF combos = <<>> THEN NoAction
        ELSE IF three # <<>> THEN PlayComboAction(three[1].cards, target)
        ELSE IF five # <<>> /\ TopDiscard(v) \in premium
        THEN PlayComboAction(five[1].cards, NoPlayer)
        ELSE IF two # <<>> THEN PlayComboAction(two[1].cards, target)
        ELSE NoAction

\* A faulty low-risk policy, against which the draw-only property is tested:
\* it offloads a held Attack whatever the number of turns remaining
Attack_whenever_held(v) ==
    LET attack_cards == get_cards_of_type(v, ATTACK)
    IN  IF attack_cards # <<>> /\ v.other_players # <<>>
        THEN PlayCardAction(attack_cards[1], v.other_players[1])
        ELSE DrawCardAction

\* aaron_bot.MyBot._early_low_risk
Aaron_early_low_risk(v) ==
    LET attack_cards == get_cards_of_type(v, ATTACK)
        target == Aaron_choose_attack_target(v, FALSE)
    IN  IF /\ v.my_turns_remaining > 1
           /\ attack_cards # <<>> /\ v.other_players # <<>>
           /\ target # NoPlayer
        THEN PlayCardAction(attack_cards[1], target)
        ELSE DrawCardAction

\* aaron_bot.MyBot._midgame_control
Aaron_midgame_control(s, v) ==
    LET known == s.known_top_cards
        shuffle_cards == get_cards_of_type(v, SHUFFLE)
        defensive == Aaron_play_defensive(v)
        steal == Aaron_steal_for_value(v, TRUE)
    IN  IF /\ shuffle_cards # <<>> /\ Truthy(known) /\ Contains(known, EXPLODING)
           /\ ~Aaron_has_strategic_bot(v)
        THEN PlayCardAction(shuffle_cards[1], NoPlayer)
        ELSE IF Truthy(known) /\ known[1] = EXPLODING /\ defensive # NoAction
        THEN defensive
        ELSE IF steal # NoAction THEN steal
        ELSE DrawCardAction

\* aaron_bot.MyBot._late_high_risk
Aaron_late_high_risk(s, v, ek_probability) ==
    LET known == s.known_top_cards
        shuffle_cards == get_cards_of_type(v, SHUFFLE)
        defensive == Aaron_play_defensive(v)
        aggressive == Aaron_play_aggressive(v, ek_probability)
        skip_cards == get_cards_of_type(v, SKIP)
    IN  IF shuffle_cards # <<>> /\ ~Aaron_has_strategic_bot(v)
        THEN PlayCardAction(shuffle_cards[1], NoPlayer)
        ELSE IF defensive # NoAction THEN defensive
        ELSE IF aggressive # NoAction THEN aggressive
        ELSE IF /\ Truthy(known) /\ known[1] # EXPLODING
                /\ v.my_turns_remaining > 1 /\ skip_cards # <<>>
        THEN PlayCardAction(skip_cards[1], NoPlayer)
        ELSE DrawCardAction

\* aaron_bot.MyBot.decide_action
Aaron_decide_action(s, v, ek_probability) ==
    LET combo_action == Aaron_try_play_best_combo(v)
        stf_cards == get_cards_of_type(v, STF)
    IN  IF combo_action # NoAction THEN combo_action
        ELSE IF /\ stf_cards # <<>> /\ s.known_top_cards = None
                /\ RGe(ek_probability, Rat(33, 100)) /\ v.draw_pile_count > 0
        THEN PlayCardAction(stf_cards[1], NoPlayer)
        ELSE IF RLt(ek_probability, Rat(33, 100)) THEN Aaron_early_low_risk(v)
        ELSE IF RLt(ek_probability, Rat(50, 100)) THEN Aaron_midgame_control(s, v)
        ELSE Aaron_late_high_risk(s, v, ek_probability)

\* aaron_bot.MyBot._play_after_first_ek
Aaron_play_after_first_ek(s, v) ==
    LET shuffle_cards == get_cards_of_type(v, SHUFFLE)
        stf_cards == get_cards_of_type(v, STF)
        steal == Aaron_steal_for_value(v, TRUE)
        defensive == Aaron_play_defensive(v)
    IN  IF ~s.first_ek_seen_from_other THEN NoAction
        ELSE IF shuffle_cards # <<>> THEN PlayCardAction(shuffle_cards[1], NoPlayer)
        ELSE IF stf_cards # <<>> /\ v.draw_pile_count > 0
        THEN PlayCardAction(stf_cards[1], NoPlayer)
        ELSE IF steal # NoAction THEN steal
        ELSE IF defensive # NoAction THEN defensive
        ELSE DrawCardAction

\* aaron_bot.MyBot._initialize_game_baseline
Aaron_initialize_game_baseline(s, v) ==
    [s EXCEPT !.initial_player_count = IF @ = NoCount THEN Len(v.turn_order) ELSE @]

\* aaron_bot.MyBot.take_turn
Aaron_take_turn(s, v) ==
    LET s1 == Aaron_initialize_game_baseline(s, v)
        s2 == [s1 EXCEPT !.turn_count = @ + 1]
        ek_risk == Aaron_calculate_ek_risk(s2, v)
        post_first == Aaron_play_after_first_ek(s2, v)
    IN  IF s2.turn_count = 1 THEN Out(s2, DrawCardAction)
        ELSE IF post_first # NoAction THEN Out(s2, post_first)
        ELSE Out(s2, Aaron_decide_action(s2, v, ek_risk))

-----------------------------------------------------------------------------
(* my_bot.MyBot: take_turn (it reads no field of the instance)             *)

\* my_bot.MyBot._find_possible_combos
MyBot_find_possible_combos(hand) ==
    PairsAndTriples(hand, ComboKeys(hand)) \o FiveDifferent(hand)

\* my_bot.MyBot.take_turn
MyBot_take_turn(v) ==
    LET see_future_cards == get_cards_of_type(v, STF)
        attack_cards == get_cards_of_type(v, ATTACK)
        skip_cards == get_cards_of_type(v, SKIP)
        favor_cards == get_cards_of_type(v, FAVOR)
        combos == MyBot_find_possible_combos(v.my_hand)
        three == OfKind(combos, "three_of_a_kind")
    IN  IF see_future_cards # <<>> /\ v.draw_pile_count > 0
        THEN PlayCardAction(see_future_cards[1], NoPlayer)
        ELSE IF /\ v.my_turns_remaining > 1
                /\ attack_cards # <<>> /\ v.other_players # <<>>
        THEN PlayCardAction(attack_cards[1], MaxByCount(v, v.other_players))
        ELSE IF v.my_turns_remaining > 1 /\ skip_cards # <<>>
        THEN PlayCardAction(skip_cards[1], NoPlayer)
        ELSE IF combos # <<>> /\ v.other_players # <<>> /\ three # <<>>
        THEN PlayComboAction(three[1].cards, MaxByCount(v, v.other_players))
        ELSE IF /\ combos # <<>> /\ v.other_players # <<>>
                /\ combos[1].combo_type \in {"two_of_a_kind", "three_of_a_kind"}
        THEN PlayComboAction(combos[1].cards, MaxByCount(v, v.other_players))
        ELSE IF Len(v.my_hand) < 3 /\ v.other_players # <<>> /\ favor_cards # <<>>
        THEN PlayCardAction(favor_cards[1], MaxByCount(v, v.other_players))
        ELSE DrawCardAction

-----------------------------------------------------------------------------
(* SpecTurn: take_turn applied once to a bounded knowledge state and view. *)
(* The knowledge states are those the trackers and earlier turns can       *)
(* leave: peek knowledge needs two earlier decisions (the first decision   *)
(* always draws) and is no longer than the pile, the first decision pins   *)
(* the initial player count, an elimination or a neutralizer use implies   *)
(* that a hazard was drawn, and a reshuffle by the agent resets its peek   *)
(* knowledge.                                                              *)

MaxTurnCount == 2     \* decisions already taken when take_turn is called
MaxTurns == 2         \* my_turns_remaining
MaxCats == 3          \* cat cards (of one kind) in the hand
MaxActionKinds == 2   \* different action cards in the hand
MaxHeldDefuses == 1   \* neutralizers in the hand

ActionOrder == <<SKIP, SHUFFLE, ATTACK, STF, FAVOR>>

\* the hands: cats of one kind, then action cards, then neutralizers
TurnHands ==
    { Copies(TACOCAT, c) \o SelectSeq(ActionOrder, LAMBDA t : t \in A) \o Copies(DEFUSE, d) :
        c \in {0} \cup (2..MaxCats),
        A \in {X \in SUBSET Range(ActionOrder) : Cardinality(X) <= MaxActionKinds},
        d \in 0..MaxHeldDefuses }

\* the living opponents, with and without a strategic bot among them
Tables == { <<"p1">>, <<"p1", "chatgpt_1">>, <<"p1", "p2", "p3">> }

\* visible card counts: of the first opponent, and of every other one
FirstCounts == {0, 2, 5}
RestCounts == {0, 3}

TurnPiles == {0, 1, MaxPile, ScenarioDeck}

\* a neutralizer is held only in front of a pile of MaxPile cards
HandFits(hand, pile) == Contains(hand, DEFUSE) => pile = MaxPile

TurnView(hand, pile, others, a, b, turns) ==
    [ my_id |-> ME,
      my_hand |-> hand,
      draw_pile_count |-> pile,
      other_players |-> others,
      turn_order |-> <<ME>> \o others,
      other_player_card_counts |-> [p \in Range(others) |-> IF p = others[1] THEN a ELSE b],
      my_turns_remaining |-> turns,
      discard_pile |-> <<>> ]

\* peek knowledge a turn can start with: [known, jp]
PeekStates ==
    { [known |-> None, jp |-> FALSE], [known |-> None, jp |-> TRUE],
      [known |-> <<EXPLODING>>, jp |-> TRUE], [known |-> <<TACOCAT>>, jp |-> TRUE],
      [known |-> <<TACOCAT, EXPLODING>>, jp |-> TRUE] }

\* the knowledge MastermindBot can hold when take_turn is called with
\* `alive` players left; gone = players eliminated since its first decision
MastermindStates(alive) ==
    LET shapes == [tc : 0..MaxTurnCount, gone : {0, 1, alive}, f : BOOLEAN,
                   k : PeekStates, sh : BOOLEAN, du : BOOLEAN]
        valid(c) == /\ (c.tc = 0 => c.gone = 0 /\ ~c.du)
                    /\ (c.tc < 2 => c.k = [known |-> None, jp |-> FALSE] /\ ~c.sh)
                    /\ (c.gone > 0 \/ c.du => c.f)
                    /\ (c.sh => c.k.known = None /\ ~c.du)
                    /\ (c.du => c.k.known = None /\ ~c.k.jp)
    IN  { [MastermindInit EXCEPT
              !.turn_count = c.tc,
              !.initial_player_count = IF c.tc = 0 THEN NoCount ELSE alive + c.gone,
              !.kittens_removed = c.gone,
              !.first_ek_seen = c.f,
              !.known_top_cards = c.k.known,
              !.just_peeked = c.k.jp,
              !.last_shuffle_turn = IF c.sh THEN c.tc ELSE 0 - 1,
              !.defuses_used = IF c.du THEN 1 ELSE 0,
              !.opponent_defuses_used = IF c.du THEN [p \in {"p1"} |-> TRUE] ELSE EmptyDict]
          : c \in {x \in shapes : valid(x)} }

\* the knowledge the aaron bot can hold when take_turn is called
AaronStates(alive) ==
    LET shapes == [tc : 0..MaxTurnCount, gone : {0}, f : BOOLEAN, k : PeekStates]
        valid(c) == /\ (c.tc = 0 => c.gone = 0)
                    /\ (c.tc < 2 => c.k.known = None)
                    /\ c.k.jp = (c.k.known # None)
                    /\ (c.gone > 0 => c.f)
    IN  { [AaronInit EXCEPT
              !.turn_count = c.tc,
              !.initial_player_count = IF c.tc = 0 THEN NoCount ELSE alive + c.gone,
              !.kittens_removed = c.gone,
              !.first_ek_seen_from_other = c.f,
              !.known_top_cards = c.k.known]
          : c \in {x \in shapes : valid(x)} }

TurnBots == {"mastermind", "aaron", "my_bot"}

InitTurn ==
    \E bot \in TurnBots, hand \in TurnHands, others \in Tables,
       a \in FirstCounts, b \in RestCounts, pile \in TurnPiles, turns \in 1..MaxTurns :
        /\ Len(others) = 1 => b = 0
        /\ HandFits(hand, pile)
        /\ view = TurnView(hand, pile, others, a, b, turns)
        /\ mastermind \in (IF bot = "mastermind" THEN MastermindStates(Len(others) + 1)
                           ELSE {MastermindInit})
        /\ aaron \in (IF bot = "aaron" THEN AaronStates(Len(others) + 1) ELSE {AaronInit})
        /\ KnownLen(mastermind.known_top_cards) <= pile
        /\ KnownLen(aaron.known_top_cards) <= pile
        /\ tft = TFTInit
        /\ deck = <<>>
        /\ pending = [Idle EXCEPT !.stage = "turn", !.player = bot]
        /\ event = NoEvent
        /\ call = NoCall
        /\ ret = NoRet

TakeTurnMastermind ==
    /\ pending.stage = "turn" /\ pending.player = "mastermind"
    /\ LET r == Mastermind_take_turn(mastermind, view)
       IN  mastermind' = r.s /\ ret' = r.a
    /\ call' = [bot |-> "mastermind", fn |-> "take_turn"]
    /\ pending' = Idle
    /\ UNCHANGED <<aaron, tft, view, deck, event>>

TakeTurnAaron ==
    /\ pending.stage = "turn" /\ pending.player = "aaron"
    /\ LET r == Aaron_take_turn(aaron, view)
       IN  aaron' = r.s /\ ret' = r.a
    /\ call' = [bot |-> "aaron", fn |-> "take_turn"]
    /\ pending' = Idle
    /\ UNCHANGED <<mastermind, tft, view, deck, event>>

TakeTurnMyBot ==
    /\ pending.stage = "turn" /\ pending.player = "my_bot"
    /\ ret' = MyBot_take_turn(view)
    /\ call' = [bot |-> "my_bot", fn |-> "take_turn"]
    /\ pending' = Idle
    /\ UNCHANGED <<mastermind, aaron, tft, view, deck, event>>

NextTurn == TakeTurnMastermind \/ TakeTurnAaron \/ TakeTurnMyBot

SpecTurn == InitTurn /\ [][NextTurn]_vars

-----------------------------------------------------------------------------
(* Claims about take_turn (checked under SpecTurn).  take_turn changes     *)
(* neither the view nor the peek knowledge nor the hazard-exposure flag,   *)
(* so the state after the call still shows what the call was given.        *)

TurnTaken(bots) == call.fn = "take_turn" /\ call.bot \in bots

Holds(t) == has_card_type(view, t)

\* the returned action plays one card of type t
Plays(t) ==
    /\ ret.kind = "PlayCard"
    /\ ret.card \in 1..Len(view.my_hand)
    /\ view.my_hand[ret.card] = t

\* the hand holds a pair or a triple
HasCombo == PairsAndTriples(view.my_hand, ComboKeys(view.my_hand)) # <<>>

\* the hand holds three combo-eligible cards of one kind
HasTriple ==
    \E t \in Range(view.my_hand) : can_combo(t) /\ count_cards_of_type(view, t) >= 3

\* the hazard-exposure flag of the bot that was called
HazardSeen == IF call.bot = "mastermind" THEN mastermind.first_ek_seen
              ELSE aaron.first_ek_seen_from_other

\* the number of this decision (take_turn has counted it)
DecisionNumber == IF call.bot = "mastermind" THEN mastermind.turn_count
                  ELSE aaron.turn_count

\* the aaron bot reaches _late_high_risk: it is past its first decision, the
\* post-exposure path is off and no combo is played
AaronOnHighRiskPath ==
    /\ aaron.turn_count > 1
    /\ ~aaron.first_ek_seen_from_other
    /\ Aaron_try_play_best_combo(view) = NoAction

\* C1: when take_turn is called while the first known-top entry is the
\* hazard (MastermindBot in every phase, the aaron bot on its high-risk
\* path), it returns a skip if one is held, else a reshuffle if one is held,
\* else an Attack aimed at a living opponent if one is held and an opponent
\* lives, and Draw only if none of the three is available.
C1_SurvivalGateOrder ==
    (/\ TurnTaken({"mastermind", "aaron"})
     /\ Truthy(KnownTopOf(call.bot)) /\ KnownTopOf(call.bot)[1] = EXPLODING
     /\ (call.bot = "aaron" => AaronOnHighRiskPath))
    => IF Holds(SKIP) THEN Plays(SKIP)
       ELSE IF Holds(SHUFFLE) THEN Plays(SHUFFLE)
       ELSE IF Holds(ATTACK) /\ view.other_players # <<>>
       THEN Plays(ATTACK) /\ Contains(view.other_players, ret.target)
       ELSE ret = DrawCardAction

\* an action is legal for view v
Legal(a, v) ==
    LET in_hand(c) == c \in 1..Len(v.my_hand)
        steals == \/ a.kind = "PlayCard" /\ v.my_hand[a.card] = FAVOR
                  \/ a.kind = "PlayCombo" /\ Len(a.cards) \in {2, 3}
    IN  \/ a.kind = "Draw"
        \/ /\ a.kind = "PlayCard"
           /\ in_hand(a.card)
           /\ (a.target # NoPlayer => Contains(v.other_players, a.target))
           /\ (steals => a.target # NoPlayer /\ Count(v, a.target) > 0)
        \/ /\ a.kind = "PlayCombo"
           /\ \A i \in 1..Len(a.cards) : in_hand(a.cards[i])
           /\ \A i, j \in 1..Len(a.cards) : i # j => a.cards[i] # a.cards[j]
           /\ (a.target # NoPlayer => Contains(v.other_players, a.target))
           /\ (steals => a.target # NoPlayer /\ Count(v, a.target) > 0)

\* C2: every action returned by take_turn is legal for its view: each card
\* played is a card of the hand, a target is one of view.other_players, and a
\* favor, pair or triple is never aimed at an opponent showing 0 cards.
C2_ActionsLegal ==
    TurnTaken({"mastermind", "aaron"}) => Legal(ret, view)

\* the end-to-end scenario: four players from the start, nobody eliminated,
\* a pile of ScenarioDeck cards, no peek knowledge, no neutralizer, no combo
Scenario ==
    /\ TurnTaken({"mastermind", "aaron"})
    /\ Len(view.turn_order) = 4
    /\ (IF call.bot = "mastermind" THEN mastermind.initial_player_count
        ELSE aaron.initial_player_count) = 4
    /\ (IF call.bot = "mastermind" THEN mastermind.kittens_removed
        ELSE aaron.kittens_removed) = 0
    /\ view.draw_pile_count = ScenarioDeck
    /\ KnownTopOf(call.bot) = None
    /\ ~Holds(DEFUSE)
    /\ ~HasCombo

C7_TripleFirst ==
    (/\ TurnTaken({"mastermind", "aaron", "my_bot"})
     /\ HasTriple
     /\ \E i \in 1..Len(view.other_players) : Count(view, view.other_players[i]) > 0)
    => /\ ret.kind = "PlayCombo"
       /\ Len(ret.cards) = 3
       /\ \A i \in 1..3 : /\ ret.cards[i] \in 1..Len(view.my_hand)
                          /\ view.my_hand[ret.cards[i]] = view.my_hand[ret.cards[1]]
                          /\ can_combo(view.my_hand[ret.cards[i]])
       /\ Contains(view.other_players, ret.target)

-----------------------------------------------------------------------------
(* SpecPin: a game in which the agent also takes turns.  The events are    *)
(* those of Spec; between events the engine may ask MastermindBot or the   *)
(* aaron bot for a decision, which is where they pin the initial player    *)
(* count from the view's turn order.                                       *)

MaxPinTurns == 2      \* decisions taken by one bot in a game with turns

InitPin ==
    \E n \in 1..(MaxPlayers - 1), d \in AllDecks :
        /\ Len(d) >= n /\ EKCount(d) = n
        /\ mastermind = MastermindInit
        /\ aaron = AaronInit
        /\ tft = TFTInit
        /\ deck = d
        /\ view = GameView(d, SubSeq(Opponents, 1, n))
        /\ pending = [Idle EXCEPT !.stage = "start"]
        /\ event = NoEvent
        /\ call = NoCall
        /\ ret = NoRet

GameTurnMastermind ==
    /\ pending.stage = "none" /\ view.other_players # <<>>
    /\ mastermind.turn_count < MaxPinTurns
    /\ LET r == Mastermind_take_turn(mastermind, view)
       IN  mastermind' = r.s /\ ret' = r.a
    /\ call' = [bot |-> "mastermind", fn |-> "take_turn"]
    /\ UNCHANGED <<aaron, tft, view, deck, event, pending>>

GameTurnAaron ==
    /\ pending.stage = "none" /\ view.other_players # <<>>
    /\ aaron.turn_count < MaxPinTurns
    /\ LET r == Aaron_take_turn(aaron, view)
       IN  aaron' = r.s /\ ret' = r.a
    /\ call' = [bot |-> "aaron", fn |-> "take_turn"]
    /\ UNCHANGED <<mastermind, tft, view, deck, event, pending>>

\* the game-started event is handed to on_event once more while the game runs
GameStartAgain ==
    /\ pending.stage = "none" /\ view.other_players # <<>>
    /\ event.event_type # "GAME_START"
    /\ Deliver(GameEvent("GAME_START", NoPlayer), view)
    /\ UNCHANGED <<deck, pending>>

NextPin ==
    \/ GameStart
    \/ GameStartAgain
    \/ CardDrawn
    \/ ExplodingKittenDrawn
    \/ DefuseUsed
    \/ ExplodingKittenInserted
    \/ PlayerEliminated
    \/ GameTurnMastermind
    \/ GameTurnAaron

SpecPin == InitPin /\ [][NextPin]_vars

\* C11: while the game is still running, once the initial player count is
\* pinned the eliminations counted by MastermindBot and by the aaron bot
\* are at most that count minus one.
C11_RemovedWithinPinned ==
    (view.other_players # <<>> /\ pending.stage # "over") =>
        /\ mastermind.initial_player_count # NoCount
              => mastermind.kittens_removed <= mastermind.initial_player_count - 1
        /\ aaron.initial_player_count # NoCount
              => aaron.kittens_removed <= aaron.initial_player_count - 1

-----------------------------------------------------------------------------
(* SpecDefuse: choose_defuse_position of the four bots, called once with a *)
(* pile size of 1..MaxDefusePile.  random.randint(a, b) is any of a..b.    *)

MaxDefusePile == 20   \* draw_pile_size handed to choose_defuse_position

randint(a, b) == a..b

PositionReturned(p) == [kind |-> "Position", position |-> p]

\* faulty variant: any index of the pile, the top included
Randint_from_top(v, draw_pile_size) == randint(0, Max(1, draw_pile_size - 1))

Mastermind_choose_defuse_position(s, v, draw_pile_size) ==
    IF draw_pile_size <= 1 THEN 0
    ELSE
    LET weak_targets == SelectSeq(v.other_players,
                            LAMBDA pid : /\ ~Get(s.opponent_defuses_used, pid, FALSE)
                                         /\ Count(v, pid) <= 3)
    IN  IF weak_targets # <<>> /\ draw_pile_size <= 10
        THEN LET max_pos == Max(1, (draw_pile_size * 3) \div 10)
             IN  Max(1, Min(max_pos, draw_pile_size - 1))
        ELSE IF draw_pile_size <= 15
        THEN Max(1, Min(3, draw_pile_size - 1))
        ELSE LET min_pos == Max(2, draw_pile_size \div 4)
                 max_pos0 == Min(draw_pile_size - 2, (draw_pile_size * 3) \div 4)
                 max_pos == IF max_pos0 < min_pos THEN min_pos ELSE max_pos0
                 position == (min_pos + max_pos) \div 2
             IN  Max(min_pos, Min(position, max_pos))

\* the positions the call can return, one per outcome of random.randint
Aaron_choose_defuse_position(v, draw_pile_size) ==
    IF draw_pile_size <= 1 THEN {0}
    ELSE LET safe_top == 1
             safe_bottom == Max(1, draw_pile_size - 1)
         IN  randint(safe_top, safe_bottom)

TFT_choose_defuse_position(v, draw_pile_size) ==
    IF draw_pile_size <= 1 THEN {0}
    ELSE IF draw_pile_size = 2 THEN {1}
    ELSE IF draw_pile_size = 3 THEN randint(1, 2)
    ELSE IF draw_pile_size <= 5 THEN randint(1, Min(3, draw_pile_size - 1))
    ELSE IF draw_pile_size <= 7 THEN randint(2, draw_pile_size - 1)
    ELSE LET min_pos == 4
             max_pos == Max(min_pos + 1, (draw_pile_size * 3) \div 4)
         IN  randint(min_pos, max_pos)

MyBot_choose_defuse_position(v, draw_pile_size) ==
    IF draw_pile_size > 4 THEN Max(1, draw_pile_size \div 4)
    ELSE Max(1, draw_pile_size - 1)

\* what MastermindBot has seen of the opponents' neutralizers
DefuseSeen == {EmptyDict, Put(EmptyDict, "p1", TRUE)}

InitDefuse ==
    \E others \in Tables, a \in FirstCounts, b \in RestCounts, du \in DefuseSeen :
        /\ view = TurnView(<<>>, MaxDefusePile, others, a, b, 1)
        /\ mastermind = [MastermindInit EXCEPT !.opponent_defuses_used = du]
        /\ aaron = AaronInit
        /\ tft = TFTInit
        /\ deck = <<>>
        /\ pending = [Idle EXCEPT !.stage = "defused", !.player = ME]
        /\ event = NoEvent
        /\ call = NoCall
        /\ ret = NoRet

\* the engine asks bot for a position, the pile holding n cards, and gets p
DefuseCall(bot, n, p) ==
    /\ pending.stage = "defused"
    /\ pending' = Idle
    /\ call' = [bot |-> bot, fn |-> "choose_defuse_position", draw_pile_size |-> n]
    /\ ret' = PositionReturned(p)
    /\ UNCHANGED <<mastermind, aaron, tft, view, deck, event>>

DefuseMastermind ==
    \E n \in 1..MaxDefusePile :
        DefuseCall("mastermind", n, Mastermind_choose_defuse_position(mastermind, view, n))

DefuseAaron ==
    \E n \in 1..MaxDefusePile :
        \E p \in Aaron_choose_defuse_position(view, n) : DefuseCall("aaron", n, p)

DefuseTFT ==
    \E n \in 1..MaxDefusePile :
        \E p \in TFT_choose_defuse_position(view, n) : DefuseCall("tft", n, p)

DefuseMyBot ==
    \E n \in 1..MaxDefusePile :
        DefuseCall("my_bot", n, MyBot_choose_defuse_position(view, n))

NextDefuse == DefuseMastermind \/ DefuseAaron \/ DefuseTFT \/ DefuseMyBot

SpecDefuse == InitDefuse /\ [][NextDefuse]_vars

\* the call of choose_defuse_position by one of bots has returned
DefuseChosen(bots) == call.fn = "choose_defuse_position" /\ call.bot \in bots

\* the position is an index of the pile and is the top only when forced
InBand(p, n) == 0 <= p /\ p <= n - 1 /\ (p = 0 => n <= 1)

\* C12: the position returned by the aaron bot, MastermindBot and TFTBot
\* for a pile of n >= 1 cards is in 0..n-1, and is 0 only when n <= 1.
C12_DefusePositionInBand ==
    DefuseChosen({"aaron", "mastermind", "tft"})
        => InBand(ret.position, call.draw_pile_size)

C12_Witness ==
    /\ DefuseChosen({"aaron"})
    /\ call.draw_pile_size = MaxDefusePile
    /\ ret.position = MaxDefusePile - 1

\* C13: the position returned by my_bot for a pile of n >= 1 cards is in
\* 0..n-1, and is 0 only when n <= 1.
C13_MyBotDefusePositionInBand ==
    DefuseChosen({"my_bot"}) => InBand(ret.position, call.draw_pile_size)

-----------------------------------------------------------------------------
(* SpecGive: choose_card_to_give of the four bots, called once with a      *)
(* non-empty hand.  The card returned is named by its position in the hand.*)

MaxGiveHand == 4      \* cards in the hand when a card has to be given

GiveKinds == {TACOCAT, SKIP, SHUFFLE, STF, DEFUSE, NOPE}

GivePiles == {1, MaxPile}

\* "Cat" in c.card_type
IsCat(t) == t \in CatKinds

CardGiven(i) == [kind |-> "Give", card |-> i]

\* positions of the hand whose card type satisfies keep, in hand order
Positions(hand, keep(_)) == SelectSeq([i \in 1..Len(hand) |-> i], LAMBDA i : keep(hand[i]))

\* cat cards, then cards not in kept, then the first card
GiveByPriority(hand, kept) ==
    LET cat_cards == Positions(hand, IsCat)
        expendable == Positions(hand, LAMBDA t : t \notin kept)
    IN  IF cat_cards # <<>> THEN cat_cards[1]
        ELSE IF expendable # <<>> THEN expendable[1]
        ELSE 1

Mastermind_choose_card_to_give(v) == GiveByPriority(v.my_hand, {DEFUSE, NOPE, SHUFFLE, STF})

Aaron_choose_card_to_give(v) == GiveByPriority(v.my_hand, {DEFUSE, NOPE})

TFT_choose_card_to_give(s, v) ==
    LET hand == v.my_hand
        ek_probability == TFT_calculate_ek_probability(s, v)
        useless_cards == Positions(hand, LAMBDA t : t \in {SHUFFLE, STF})
    IN  IF RLt(Rat(8, 10), ek_probability) /\ useless_cards # <<>> /\ Len(hand) > 3
        THEN useless_cards[1]
        ELSE GiveByPriority(hand, {DEFUSE, NOPE})

MyBot_choose_card_to_give(v) == GiveByPriority(v.my_hand, {DEFUSE, NOPE})

InitGive ==
    \E hand \in TuplesUpTo(GiveKinds, MaxGiveHand) \ {<<>>}, pile \in GivePiles :
        /\ view = TurnView(hand, pile, <<"p1">>, 2, 0, 1)
        /\ mastermind = MastermindInit
        /\ aaron = AaronInit
        /\ tft = TFTInit
        /\ deck = <<>>
        /\ pending = [Idle EXCEPT !.stage = "favor", !.player = "p1"]
        /\ event = NoEvent
        /\ call = NoCall
        /\ ret = NoRet

\* the engine asks bot for a card to hand to the requester and gets card i
GiveCall(bot, i) ==
    /\ pending.stage = "favor"
    /\ pending' = Idle
    /\ call' = [bot |-> bot, fn |-> "choose_card_to_give"]
    /\ ret' = CardGiven(i)
    /\ UNCHANGED <<mastermind, aaron, tft, view, deck, event>>

GiveMastermind == GiveCall("mastermind", Mastermind_choose_card_to_give(view))

GiveAaron == GiveCall("aaron", Aaron_choose_card_to_give(view))

GiveTFT == GiveCall("tft", TFT_choose_card_to_give(tft, view))

GiveMyBot == GiveCall("my_bot", MyBot_choose_card_to_give(view))

NextGive == GiveMastermind \/ GiveAaron \/ GiveTFT \/ GiveMyBot

SpecGive == InitGive /\ [][NextGive]_vars

\* C14: the card given is in the hand; it is a cat card if the hand has
\* one, otherwise a card that is neither Defuse nor Nope if the hand has
\* one; a Defuse or Nope is given only when the hand holds nothing else.
C14_GivePriority ==
    call.fn = "choose_card_to_give" =>
        LET hand == view.my_hand
            given == hand[ret.card]
        IN  /\ ret.card \in 1..Len(hand)
            /\ (\E i \in 1..Len(hand) : IsCat(hand[i])) => IsCat(given)
            /\ (\E i \in 1..Len(hand) : hand[i] \notin {DEFUSE, NOPE})
                  => given \notin {DEFUSE, NOPE}

-----------------------------------------------------------------------------
(* SpecReact: react of the four bots, called once with a triggering event. *)
(* random.random() < p is a boolean the caller draws (lucky).  The payload *)
(* of a triggering event carries card_type and target_player_id, and for   *)
(* a favor request the key target that the aaron bot reads.                *)

MaxNopes == 2         \* veto cards in the hand when react is called
MaxOtherCards == 4    \* cards that are neither veto nor neutralizer in that hand

\* the hands: an optional leading Skip, veto cards, a neutralizer, Skips
ReactHands ==
    { pre \o Copies(NOPE, k) \o Copies(DEFUSE, d) \o Copies(SKIP, f) :
        pre \in {<<>>, <<SKIP>>}, k \in 0..MaxNopes, d \in 0..1, f \in 0..MaxOtherCards }

ReactTargets == {NoPlayer, ME, "p2"}

TriggerEvent(type, card_type, target_player_id, target) ==
    [ event_type |-> type, player_id |-> "p1", card_types |-> <<>>,
      card_type |-> card_type, target_player_id |-> target_player_id, target |-> target ]

TriggerEvents ==
    { TriggerEvent("CARD_PLAYED", k, t, NoPlayer) : k \in {ATTACK, FAVOR, SKIP}, t \in ReactTargets }
    \cup { TriggerEvent("COMBO_PLAYED", "", t, NoPlayer) : t \in ReactTargets }
    \cup { TriggerEvent("FAVOR_REQUESTED", "", t, u) : t \in ReactTargets, u \in ReactTargets }

\* faulty variant: an Attack is only vetoed out of a surplus of veto cards
Veto_from_surplus(v, triggering_event) ==
    LET nope_cards == get_cards_of_type(v, NOPE)
    IN  IF Len(nope_cards) > 1 /\ triggering_event.event_type = "CARD_PLAYED"
           /\ triggering_event.target_player_id = v.my_id
        THEN PlayCardAction(nope_cards[1], NoPlayer)
        ELSE NoAction

\* faulty variant: the bluff fires with a single veto card as well
Bluff_with_any_veto(v, triggering_event, lucky) ==
    LET nope_cards == get_cards_of_type(v, NOPE)
    IN  IF nope_cards # <<>> /\ lucky THEN PlayCardAction(nope_cards[1], NoPlayer)
        ELSE NoAction

Mastermind_react(v, triggering_event) ==
    LET nope_cards == get_cards_of_type(v, NOPE)
        event_type == triggering_event.event_type
        card_type == triggering_event.card_type
        target_id == triggering_event.target_player_id
    IN  IF nope_cards = <<>> THEN NoAction
        ELSE IF event_type = "CARD_PLAYED" /\ card_type = ATTACK /\ target_id = v.my_id
        THEN PlayCardAction(nope_cards[1], NoPlayer)
        ELSE IF /\ event_type = "CARD_PLAYED" /\ card_type = FAVOR /\ target_id = v.my_id
                /\ (Len(v.my_hand) < 5 \/ has_card_type(v, DEFUSE))
        THEN PlayCardAction(nope_cards[1], NoPlayer)
        ELSE IF event_type = "COMBO_PLAYED" /\ target_id = v.my_id
        THEN PlayCardAction(nope_cards[1], NoPlayer)
        ELSE NoAction

TFT_react(v, triggering_event) ==
    LET nope_cards == get_cards_of_type(v, NOPE)
        event_type == triggering_event.event_type
        card_type == triggering_event.card_type
        target_id == triggering_event.target_player_id
    IN  IF nope_cards = <<>> THEN NoAction
        ELSE IF event_type = "CARD_PLAYED" /\ card_type = ATTACK /\ target_id = v.my_id
        THEN PlayCardAction(nope_cards[1], NoPlayer)
        ELSE IF /\ event_type = "CARD_PLAYED" /\ card_type = FAVOR /\ target_id = v.my_id
                /\ (Len(v.my_hand) < 5 \/ has_card_type(v, DEFUSE))
        THEN PlayCardAction(nope_cards[1], NoPlayer)
        ELSE IF event_type = "COMBO_PLAYED" /\ target_id = v.my_id
        THEN PlayCardAction(nope_cards[1], NoPlayer)
        ELSE NoAction

Aaron_react(v, triggering_event, lucky) ==
    LET nope_cards == get_cards_of_type(v, NOPE)
        event_type == triggering_event.event_type
        card_type == triggering_event.card_type
        target_id == triggering_event.target_player_id
    IN  IF nope_cards = <<>> THEN NoAction
        ELSE IF event_type = "CARD_PLAYED" /\ card_type = ATTACK /\ target_id = v.my_id
        THEN PlayCardAction(nope_cards[1], NoPlayer)
        ELSE IF event_type = "CARD_PLAYED" /\ card_type = FAVOR /\ target_id = v.my_id
        THEN PlayCardAction(nope_cards[1], NoPlayer)
        ELSE IF event_type = "FAVOR_REQUESTED" /\ triggering_event.target = v.my_id
        THEN PlayCardAction(nope_cards[1], NoPlayer)
        ELSE IF Len(nope_cards) > 1 /\ lucky
        THEN PlayCardAction(nope_cards[1], NoPlayer)
        ELSE NoAction

MyBot_react(v, triggering_event, lucky) ==
    LET nope_cards == get_cards_of_type(v, NOPE)
        event_type == triggering_event.event_type
        card_type == triggering_event.card_type
        target_id == triggering_event.target_player_id
    IN  IF nope_cards = <<>> THEN NoAction
        ELSE IF event_type = "CARD_PLAYED" /\ card_type = ATTACK /\ target_id = v.my_id
        THEN PlayCardAction(nope_cards[1], NoPlayer)
        ELSE IF event_type = "CARD_PLAYED" /\ card_type = FAVOR /\ target_id = v.my_id
        THEN PlayCardAction(nope_cards[1], NoPlayer)
        ELSE IF Len(nope_cards) > 1 /\ lucky
        THEN PlayCardAction(nope_cards[1], NoPlayer)
        ELSE NoAction

InitReact ==
    \E hand \in ReactHands :
        /\ view = TurnView(hand, MaxPile, <<"p1", "p2">>, 2, 3, 1)
        /\ mastermind = MastermindInit
        /\ aaron = AaronInit
        /\ tft = TFTInit
        /\ deck = <<>>
        /\ pending = [Idle EXCEPT !.stage = "react", !.player = "p1"]
        /\ event = NoEvent
        /\ call = NoCall
        /\ ret = NoRet

\* the engine hands triggering event e to react of bot and gets action a
ReactCall(bot, e, a) ==
    /\ pending.stage = "react"
    /\ pending' = Idle
    /\ event' = e
    /\ call' = [bot |-> bot, fn |-> "react"]
    /\ ret' = a
    /\ UNCHANGED <<mastermind, aaron, tft, view, deck>>

ReactMastermind ==
    \E e \in TriggerEvents : ReactCall("mastermind", e, Mastermind_react(view, e))

ReactTFT ==
    \E e \in TriggerEvents : ReactCall("tft", e, TFT_react(view, e))

ReactAaron ==
    \E e \in TriggerEvents, lucky \in BOOLEAN : ReactCall("aaron", e, Aaron_react(view, e, lucky))

ReactMyBot ==
    \E e \in TriggerEvents, lucky \in BOOLEAN : ReactCall("my_bot", e, MyBot_react(view, e, lucky))

NextReact == ReactMastermind \/ ReactTFT \/ ReactAaron \/ ReactMyBot

SpecReact == InitReact /\ [][NextReact]_vars

\* react of one of bots has returned
Reacted(bots) == call.fn = "react" /\ call.bot \in bots

\* the action returned plays a veto card of the hand
Vetoes == ret.kind = "PlayCard" /\ ret.card \in 1..Len(view.my_hand)
              /\ view.my_hand[ret.card] = NOPE

\* the triggering event names the agent as its target
TargetsMe == event.target_player_id = ME \/ event.target = ME

\* C15: react, called with a card-played event of an Attack whose target
\* is the agent while the agent holds a Nope, returns a play of a Nope
\* from its hand.
C15_AttackOnSelfVetoed ==
    ( /\ Reacted({"mastermind", "tft", "aaron", "my_bot"})
      /\ event.event_type = "CARD_PLAYED" /\ event.card_type = ATTACK
      /\ event.target_player_id = ME
      /\ Holds(NOPE) )
        => Vetoes

C15_Witness ==
    /\ Reacted({"tft"})
    /\ event.event_type = "CARD_PLAYED" /\ event.card_type = ATTACK
    /\ event.target_player_id = ME
    /\ count_cards_of_type(view, NOPE) = 1 /\ Len(view.my_hand) >= 5
    /\ Vetoes /\ ret.card = 2

\* C16: holding a Nope, react of MastermindBot, TFTBot and the aaron bot
\* vetoes a Favor played at the agent when the hand has fewer than 5 cards
\* or holds a Defuse, and vetoes every combo played at the agent.
C16_FavorAndComboOnSelfVetoed ==
    (Reacted({"mastermind", "tft", "aaron"}) /\ Holds(NOPE)) =>
        /\ ( /\ event.event_type = "CARD_PLAYED" /\ event.card_type = FAVOR
             /\ event.target_player_id = ME
             /\ (Len(view.my_hand) < 5 \/ Holds(DEFUSE)) ) => Vetoes
        /\ (event.event_type = "COMBO_PLAYED" /\ event.target_player_id = ME) => Vetoes

\* C17: react returns a veto only when a Nope is held (and nothing when
\* none is held); with exactly one Nope in hand it vetoes only events
\* whose target is the agent.
C17_VetoNeedsCardAndBluffNeedsSurplus ==
    Reacted({"mastermind", "tft", "aaron", "my_bot"}) =>
        /\ ret # NoAction => Vetoes
        /\ ~Holds(NOPE) => ret = NoAction
        /\ (count_cards_of_type(view, NOPE) = 1 /\ ret # NoAction) => TargetsMe

C17_Witness ==
    /\ Reacted({"aaron"})
    /\ count_cards_of_type(view, NOPE) = 2
    /\ ~TargetsMe
    /\ Vetoes

-----------------------------------------------------------------------------
(* SpecCombo: the combo detectors of the four bots, called once on a hand  *)
(* of cat cards of up to six kinds and Skip cards.  The detectors treat    *)
(* the kinds alike, so the hands name the kinds in the order they first    *)
(* occur in the hand.                                                      *)

MaxComboHand == 7     \* cards in the hand handed to a combo detector

\* TFTBot._find_possible_combos
TFT_find_possible_combos(hand) ==
    PairsAndTriples(hand, ComboKeys(hand)) \o FiveDifferent(hand)

\* the cat kinds that occur in hand
KindsIn(hand) == {hand[i] : i \in 1..Len(hand)} \cap CatKinds

\* the card types that can follow hand h: a Skip, a kind already in h, or
\* the next kind of CatOrder
NextCards(h) ==
    {SKIP} \cup {CatOrder[i] : i \in 1..Min(Len(CatOrder), Cardinality(KindsIn(h)) + 1)}

\* the hands of n cards
RECURSIVE HandsOfLength(_)
HandsOfLength(n) ==
    IF n = 0 THEN {<<>>}
    ELSE UNION { {Append(h, x) : x \in NextCards(h)} : h \in HandsOfLength(n - 1) }

ComboHands == UNION {HandsOfLength(n) : n \in 0..MaxComboHand}

CombosFound(combos) == [kind |-> "Combos", combos |-> combos]

InitCombo ==
    \E hand \in ComboHands :
        /\ view = TurnView(hand, MaxPile, <<"p1">>, 2, 0, 1)
        /\ mastermind = MastermindInit
        /\ aaron = AaronInit
        /\ tft = TFTInit
        /\ deck = <<>>
        /\ pending = [Idle EXCEPT !.stage = "combos", !.player = ME]
        /\ event = NoEvent
        /\ call = NoCall
        /\ ret = NoRet

\* the detector of bot is applied to the hand and yields combos
ComboCall(bot, combos) ==
    /\ pending.stage = "combos"
    /\ pending' = Idle
    /\ call' = [bot |-> bot, fn |-> "find_combos"]
    /\ ret' = CombosFound(combos)
    /\ UNCHANGED <<mastermind, aaron, tft, view, deck, event>>

CombosMastermind == ComboCall("mastermind", Mastermind_find_all_combos(view.my_hand))

CombosAaron == ComboCall("aaron", Aaron_find_possible_combos(view.my_hand))

CombosTFT == ComboCall("tft", TFT_find_possible_combos(view.my_hand))

CombosMyBot == ComboCall("my_bot", MyBot_find_possible_combos(view.my_hand))

NextCombo == CombosMastermind \/ CombosAaron \/ CombosTFT \/ CombosMyBot

SpecCombo == InitCombo /\ [][NextCombo]_vars

\* a combo detector of one of bots has returned
CombosCalled(bots) == call.fn = "find_combos" /\ call.bot \in bots

\* the entries of combos that are of type kind and start with a card of type k
EntriesOf(combos, hand, kind, k) ==
    {i \in 1..Len(combos) : combos[i].combo_type = kind /\ hand[combos[i].cards[1]] = k}

\* C18: for every hand the pairs and triples reported are exactly one
\* triple (the first three cards, in hand order) for each eligible kind
\* held three or more times, one pair for each eligible kind held exactly
\* twice, nothing for a kind held once, never a pair and a triple of one
\* kind, and no card that is not combo-eligible in any combo.
C18_PairsAndTriplesExact ==
    CombosCalled({"mastermind", "aaron", "tft", "my_bot"}) =>
        LET hand == view.my_hand
            combos == ret.combos
        IN  /\ \A k \in KindsIn(hand) :
                 LET held == PositionsFrom(hand, k, 1)
                     triples == EntriesOf(combos, hand, "three_of_a_kind", k)
                     pairs == EntriesOf(combos, hand, "two_of_a_kind", k)
                 IN  /\ Len(held) >= 3 =>
                           /\ Cardinality(triples) = 1 /\ pairs = {}
                           /\ \A i \in triples : combos[i].cards = SubSeq(held, 1, 3)
                     /\ Len(held) = 2 =>
                           /\ Cardinality(pairs) = 1 /\ triples = {}
                           /\ \A i \in pairs : combos[i].cards = held
                     /\ Len(held) = 1 => triples = {} /\ pairs = {}
            /\ \A i \in 1..Len(combos) :
                 /\ \A j \in 1..Len(combos[i].cards) : can_combo(hand[combos[i].cards[j]])
                 /\ combos[i].combo_type \in {"three_of_a_kind", "two_of_a_kind"}
                       => \A j \in 1..Len(combos[i].cards) :
                             hand[combos[i].cards[j]] = hand[combos[i].cards[1]]

C18_Witness ==
    /\ CombosCalled({"aaron"})
    /\ view.my_hand = <<TACOCAT, SKIP, BEARDCAT, TACOCAT, BEARDCAT, TACOCAT, TACOCAT>>
    /\ ret.combos = << [combo_type |-> "three_of_a_kind", cards |-> <<1, 4, 6>>],
                       [combo_type |-> "two_of_a_kind", cards |-> <<3, 5>>] >>

\* C19: a five-different combo is reported if and only if the hand holds
\* five or more eligible kinds; it is then reported once, as the last
\* entry, and is made of the first card in hand order of each of the first
\* five kinds met in the hand; the four detectors report the same list.
C19_FiveDifferentExact ==
    CombosCalled({"mastermind", "aaron", "tft", "my_bot"}) =>
        LET hand == view.my_hand
            combos == ret.combos
            fives == {i \in 1..Len(combos) : combos[i].combo_type = "five_different"}
            first(p) == can_combo(hand[p]) /\ \A q \in 1..(p - 1) : hand[q] # hand[p]
        IN  /\ (fives # {}) <=> (Cardinality(KindsIn(hand)) >= 5)
            /\ \A i \in fives :
                 LET cards == combos[i].cards
                 IN  /\ fives = {Len(combos)}
                     /\ Len(cards) = 5
                     /\ \A a \in 1..5 : cards[a] \in 1..Len(hand) /\ first(cards[a])
                     /\ \A a \in 1..4 : cards[a] < cards[a + 1]
                     /\ \A p \in 1..cards[5] : first(p) => \E a \in 1..5 : cards[a] = p
            /\ combos = Mastermind_find_all_combos(hand)
            /\ combos = Aaron_find_possible_combos(hand)
            /\ combos = TFT_find_possible_combos(hand)
            /\ combos = MyBot_find_possible_combos(hand)

C19_Witness ==
    /\ CombosCalled({"tft"})
    /\ Cardinality(KindsIn(view.my_hand)) = 6
    /\ view.my_hand[1] = SKIP
    /\ ret.combos = << [combo_type |-> "five_different", cards |-> <<2, 3, 4, 5, 6>>] >>

-----------------------------------------------------------------------------
(* SpecProfile: the opponent models.  Opponents play cards, every play is  *)
(* handed to on_event of the trackers, and at any moment the aaron bot's   *)
(* simulate_opponent or MastermindBot's read of its defensive probability  *)
(* is applied to one opponent.                                             *)

MaxObserved == 3      \* card-played events the trackers observe

ObservedKinds == {SKIP, NOPE, FAVOR, DEFUSE}

ProfileRead(defensive, nope) == [kind |-> "Profile", defensive |-> defensive, nope |-> nope]

InitProfile ==
    /\ view = GameView(<<EXPLODING, TACOCAT>>, <<"p1", "p2">>)
    /\ mastermind = MastermindInit
    /\ aaron = AaronInit
    /\ tft = TFTInit
    /\ deck = <<EXPLODING, TACOCAT>>
    /\ pending = Idle
    /\ event = NoEvent
    /\ call = NoCall
    /\ ret = NoRet

ProfilePlayed ==
    \E p \in Range(view.other_players), k \in ObservedKinds :
        /\ pending.plays < MaxObserved
        /\ pending' = [pending EXCEPT !.plays = @ + 1]
        /\ Deliver([GameEvent("CARD_PLAYED", p) EXCEPT !.card_type = k], view)
        /\ UNCHANGED deck

ProfileAaron ==
    \E pid \in Range(view.other_players) :
        /\ LET r == Aaron_simulate_opponent(aaron, pid)
           IN  ret' = ProfileRead(r.defensive, r.nope)
        /\ call' = [bot |-> "aaron", fn |-> "simulate_opponent", player_id |-> pid]
        /\ UNCHANGED <<mastermind, aaron, tft, view, deck, event, pending>>

\* MastermindBot reads the defensive probability only; it never reads
\* _opponent_nope_prob
ProfileMastermind ==
    \E pid \in Range(view.other_players) :
        /\ ret' = ProfileRead(Mastermind_defense_prob(mastermind, pid), None)
        /\ call' = [bot |-> "mastermind", fn |-> "defense_prob", player_id |-> pid]
        /\ UNCHANGED <<mastermind, aaron, tft, view, deck, event, pending>>

NextProfile == ProfilePlayed \/ ProfileAaron \/ ProfileMastermind

SpecProfile == InitProfile /\ [][NextProfile]_vars

\* the plays the bot has observed of the opponent its model was read for
ObservedOf(counts) == SumValues(Get(counts, call.player_id, EmptyDict))

\* C20: for an opponent with no observed plays the defensive probability
\* read is the prior 0.3 and the veto probability is 0.2, in the aaron
\* bot's simulate_opponent and in MastermindBot's reads of its model.
C20_NeutralPrior ==
    /\ (call.fn = "simulate_opponent" /\ ObservedOf(aaron.opponent_card_counts) = 0)
          => ret.defensive = Rat(3, 10) /\ ret.nope = Rat(2, 10)
    /\ (call.fn = "defense_prob" /\ ObservedOf(mastermind.opponent_card_counts) = 0)
          => ret.defensive = Rat(3, 10)

-----------------------------------------------------------------------------
(* Consuming the known-top sequence                                         *)

\* what a card-drawn event must leave of a non-empty known-top sequence:
\* its tail, or the unknown state held before any peek and after a reshuffle
AfterDraw(k) == IF Len(k) > 1 THEN Rest(k) ELSE None

\* C21: every card-drawn event processed while the known-top sequence is
\* non-empty removes exactly its first entry, and when the last entry is
\* removed the tracker of MastermindBot and of the aaron bot is back in the
\* unknown state it has before any peek and after a reshuffle, so that the
\* gates testing for absent peek knowledge fire again.
C21_DrawConsumesKnownTop ==
    [][ event'.event_type = "CARD_DRAWN"
        => /\ Truthy(mastermind.known_top_cards)
                => mastermind'.known_top_cards = AfterDraw(mastermind.known_top_cards)
           /\ Truthy(aaron.known_top_cards)
                => aaron'.known_top_cards = AfterDraw(aaron.known_top_cards) ]_vars

-----------------------------------------------------------------------------
(* TFTBot.take_turn                                                         *)

\* Card.can_play(view, is_own_turn=True) of a Favor card: some opponent
\* holds a card (the Card class is not part of src/bots)
Favor_can_play(v) == WithCards(v) # <<>>

\* TFTBot.take_turn, priorities 4 to 9 and the default: these change no field
TFT_play_for_value(v, ek_probability) ==
    LET combos == TFT_find_possible_combos(v.my_hand)
        three == OfKind(combos, "three_of_a_kind")
        valid_targets == WithCards(v)
        favor_cards == get_cards_of_type(v, FAVOR)
        playable_favors == IF Favor_can_play(v) THEN favor_cards ELSE <<>>
        skip_cards == get_cards_of_type(v, SKIP)
        attack_cards == get_cards_of_type(v, ATTACK)
        good6 == SelectSeq(v.other_players, LAMBDA pid : Count(v, pid) >= 6)
        good4 == SelectSeq(v.other_players, LAMBDA pid : Count(v, pid) >= 4)
        should_steal ==
            \/ RGe(ek_probability, Rat(25, 100))
            \/ Len(v.my_hand) < 5
            \/ Count(v, MaxByCount(v, valid_targets)) >= Len(v.my_hand) + 3
    IN  IF /\ combos # <<>> /\ v.other_players # <<>>
           /\ three # <<>> /\ valid_targets # <<>>
        THEN PlayComboAction(three[1].cards, MaxByCount(v, valid_targets))
        ELSE IF /\ combos # <<>> /\ v.other_players # <<>>
                /\ combos[1].combo_type \in {"two_of_a_kind", "three_of_a_kind"}
                /\ valid_targets # <<>>
        THEN PlayComboAction(combos[1].cards, MaxByCount(v, valid_targets))
        ELSE IF /\ favor_cards # <<>> /\ playable_favors # <<>>
                /\ v.other_players # <<>> /\ valid_targets # <<>> /\ should_steal
        THEN PlayCardAction(playable_favors[1], MaxByCount(v, valid_targets))
        ELSE IF v.my_turns_remaining > 1 /\ skip_cards # <<>>
        THEN PlayCardAction(skip_cards[1], NoPlayer)
        ELSE IF /\ RGe(ek_probability, Rat(50, 100))
                /\ favor_cards # <<>> /\ playable_favors # <<>>
                /\ v.other_players # <<>> /\ valid_targets # <<>>
        THEN PlayCardAction(playable_favors[1], MaxByCount(v, valid_targets))
        ELSE IF RGe(ek_probability, Rat(50, 100)) /\ skip_cards # <<>>
        THEN PlayCardAction(skip_cards[1], NoPlayer)
        ELSE IF /\ attack_cards # <<>> /\ Len(attack_cards) >= 3
                /\ v.other_players # <<>> /\ good6 # <<>>
        THEN PlayCardAction(attack_cards[1], MaxByCount(v, good6))
        ELSE IF /\ attack_cards # <<>> /\ Len(attack_cards) >= 2
                /\ v.other_players # <<>> /\ good4 # <<>>
                /\ RGe(ek_probability, Rat(40, 100))
        THEN PlayCardAction(attack_cards[1], MaxByCount(v, good4))
        ELSE DrawCardAction

\* TFTBot.take_turn
TFT_take_turn(s, v) ==
    LET s1 == IF v.my_turns_remaining = 1 THEN [s EXCEPT !.just_shuffled = FALSE] ELSE s
        ek_probability == TFT_calculate_ek_probability(s1, v)
        shuffle_cards == get_cards_of_type(v, SHUFFLE)
        skip_cards == get_cards_of_type(v, SKIP)
        stf_cards == get_cards_of_type(v, STF)
    IN  IF ~s1.first_ek_drawn THEN Out(s1, DrawCardAction)
        ELSE IF shuffle_cards # <<>> /\ v.draw_pile_count > 0 /\ ~s1.just_shuffled
        THEN Out([s1 EXCEPT !.just_shuffled = TRUE],
                 PlayCardAction(shuffle_cards[1], NoPlayer))
        ELSE IF s1.ek_on_top /\ skip_cards # <<>>
        THEN Out([s1 EXCEPT !.ek_on_top = FALSE],
                 PlayCardAction(skip_cards[1], NoPlayer))
        ELSE IF s1.ek_on_top /\ shuffle_cards # <<>> /\ v.draw_pile_count > 0
        THEN Out([s1 EXCEPT !.ek_on_top = FALSE, !.just_shuffled = TRUE],
                 PlayCardAction(shuffle_cards[1], NoPlayer))
        ELSE IF /\ stf_cards # <<>> /\ v.draw_pile_count > 0
                /\ \/ RGe(ek_probability, Rat(40, 100))
                   \/ RGe(ek_probability, Rat(33, 100)) /\ Len(stf_cards) > 1
                   \/ RGe(ek_probability, Rat(25, 100)) /\ Len(stf_cards) >= 3
        THEN Out(s1, PlayCardAction(stf_cards[1], NoPlayer))
        ELSE Out(s1, TFT_play_for_value(v, ek_probability))

-----------------------------------------------------------------------------
(* A game seen from one seat: the engine calls take_turn of the seated bot
   at each decision point of its turn, resolves the returned action, and
   hands every event to the bot's on_event.  The engine is not part of
   src/bots; its steps follow the interface described for the agents.       *)

MaxTableDeck == 3
MaxTableHand == 2
MaxTableOpponents == 2
MaxTableTurns == 3
MaxTableDefuses == 1

TableDecks == TuplesUpTo({EXPLODING, NOPE}, MaxTableDeck)

TableShuffles(d) == {x \in TableDecks : Len(x) = Len(d) /\ EKCount(x) = EKCount(d)}

TableHands == TuplesUpTo({SHUFFLE, SKIP, STF}, MaxTableHand)

Seats == {"mastermind", "tft"}

TableView(d, others, hand, turns) ==
    [GameView(d, others) EXCEPT !.my_hand = hand, !.my_turns_remaining = turns]

\* what the engine knows about the seat's last peek: "played" once a peek
\* card has been returned, "seen" once the cards-peeked event has arrived,
\* "none" once a card was drawn or the pile was reshuffled or a hazard put back
PeekAfter(e, g) ==
    IF e.event_type \in {"CARD_DRAWN", "DECK_SHUFFLED", "EXPLODING_KITTEN_INSERTED"}
    THEN "none"
    ELSE IF e.event_type = "CARDS_PEEKED" /\ e.player_id = ME THEN "seen"
    ELSE g

\* the hand without the card at position i
DropCard(hand, i) == SubSeq(hand, 1, i - 1) \o SubSeq(hand, i + 1, Len(hand))

\* the engine hands event e to on_event of the seated bot, with view v
SeatDeliver(e, v) ==
    /\ mastermind' = IF pending.seat = "mastermind"
                     THEN Mastermind_on_event(mastermind, e, v) ELSE mastermind
    /\ tft' = IF pending.seat = "tft" THEN TFT_on_event(tft, e, v) ELSE tft
    /\ aaron' = aaron
    /\ event' = e
    /\ view' = v
    /\ call' = [bot |-> pending.seat, fn |-> "on_event"]
    /\ ret' = NoRet

InitTable ==
    \E n \in 1..MaxTableOpponents, d \in TableDecks, hand \in TableHands, seat \in Seats :
        /\ Len(d) > n /\ EKCount(d) = n
        /\ mastermind = MastermindInit
        /\ aaron = AaronInit
        /\ tft = TFTInit
        /\ deck = d
        /\ view = TableView(d, SubSeq(Opponents, 1, n), hand, 0)
        /\ pending = [stage |-> "start", player |-> NoPlayer, plays |-> <<>>,
                      self_defuses |-> 0, seat |-> seat, peek |-> "none"]
        /\ event = NoEvent
        /\ call = NoCall
        /\ ret = NoRet

TableStart ==
    /\ pending.stage = "start"
    /\ pending' = [pending EXCEPT !.stage = "others"]
    /\ SeatDeliver(GameEvent("GAME_START", NoPlayer), view)
    /\ UNCHANGED deck

\* the turn passes to the seat, with one turn or (after an Attack) two
TurnPasses ==
    \E turns \in 1..2 :
        /\ pending.stage = "others" /\ view.other_players # <<>>
        /\ pending' = [pending EXCEPT !.stage = "turn", !.plays = <<>>]
        /\ view' = [view EXCEPT !.my_turns_remaining = turns]
        /\ UNCHANGED <<mastermind, aaron, tft, deck, event, call, ret>>

TableTakeTurn ==
    /\ pending.stage = "turn"
    /\ mastermind.turn_count < MaxTableTurns
    /\ LET o == IF pending.seat = "mastermind" THEN Mastermind_take_turn(mastermind, view)
                ELSE TFT_take_turn(tft, view)
           peeks == o.a.kind = "PlayCard" /\ view.my_hand[o.a.card] = STF
       IN  /\ mastermind' = IF pending.seat = "mastermind" THEN o.s ELSE mastermind
           /\ tft' = IF pending.seat = "tft" THEN o.s ELSE tft
           /\ ret' = o.a
           /\ pending' = [pending EXCEPT !.stage = "chosen",
                                         !.peek = IF peeks /\ @ = "none" THEN "played" ELSE @]
    /\ call' = [bot |-> pending.seat, fn |-> "take_turn"]
    /\ UNCHANGED <<aaron, view, deck, event>>

\* one of the seat's turns is over
AfterTurn(turns) == IF turns > 1 THEN "turn" ELSE "others"

TableDraw ==
    /\ pending.stage = "chosen" /\ ret.kind = "Draw"
    /\ deck # <<>> /\ Head(deck) # EXPLODING
    /\ deck' = Tail(deck)
    /\ LET e == [GameEvent("CARD_DRAWN", ME) EXCEPT !.card_type = Head(deck)]
       IN  /\ pending' = [pending EXCEPT !.stage = AfterTurn(view.my_turns_remaining),
                                         !.plays = <<>>,
                                         !.peek = PeekAfter(e, @)]
           /\ SeatDeliver(e, TableView(Tail(deck), view.other_players,
                                       Append(view.my_hand, Head(deck)),
                                       view.my_turns_remaining - 1))

TableDrawHazard ==
    /\ pending.stage = "chosen" /\ ret.kind = "Draw"
    /\ deck # <<>> /\ Head(deck) = EXPLODING
    /\ deck' = Tail(deck)
    /\ pending' = [pending EXCEPT !.stage = "drawn", !.player = ME, !.plays = <<>>]
    /\ SeatDeliver(GameEvent("EXPLODING_KITTEN_DRAWN", ME),
                   TableView(Tail(deck), view.other_players, view.my_hand,
                             view.my_turns_remaining - 1))

TablePlay ==
    /\ pending.stage = "chosen" /\ ret.kind = "PlayCard"
    /\ LET kind == view.my_hand[ret.card]
           e == [GameEvent("CARD_PLAYED", ME) EXCEPT
                    !.card_type = kind, !.target_player_id = ret.target]
       IN  /\ pending' = [pending EXCEPT !.stage = "effect", !.plays = Append(@, kind)]
           /\ SeatDeliver(e, [view EXCEPT !.my_hand = DropCard(@, ret.card)])
    /\ UNCHANGED deck

Played == pending.plays[Len(pending.plays)]

\* an opponent cancels the card: it has no effect and no further event
TableVetoed ==
    /\ pending.stage = "effect"
    /\ pending' = [pending EXCEPT !.stage = "turn"]
    /\ UNCHANGED <<mastermind, aaron, tft, view, deck, event, call, ret>>

TableShuffled ==
    \E d \in TableShuffles(deck) :
        /\ pending.stage = "effect" /\ Played = SHUFFLE
        /\ deck' = d
        /\ LET e == GameEvent("DECK_SHUFFLED", ME)
           IN  /\ pending' = [pending EXCEPT !.stage = "turn", !.peek = PeekAfter(e, @)]
               /\ SeatDeliver(e, view)

TablePeeked ==
    /\ pending.stage = "effect" /\ Played = STF
    /\ LET e == [GameEvent("CARDS_PEEKED", ME) EXCEPT !.card_types = TopCards(deck, PeekSize)]
       IN  /\ pending' = [pending EXCEPT !.stage = "turn", !.peek = PeekAfter(e, @)]
           /\ SeatDeliver(e, view)
    /\ UNCHANGED deck

TableSkipped ==
    /\ pending.stage = "effect" /\ Played = SKIP
    /\ pending' = [pending EXCEPT !.stage = AfterTurn(view.my_turns_remaining),
                                  !.plays = <<>>]
    /\ view' = [view EXCEPT !.my_turns_remaining = @ - 1]
    /\ UNCHANGED <<mastermind, aaron, tft, deck, event, call, ret>>

OtherDraws ==
    \E p \in Range(view.other_players) :
        /\ pending.stage = "others"
        /\ deck # <<>> /\ Head(deck) # EXPLODING
        /\ deck' = Tail(deck)
        /\ LET e == [GameEvent("CARD_DRAWN", p) EXCEPT !.card_type = Head(deck)]
           IN  /\ pending' = [pending EXCEPT !.peek = PeekAfter(e, @)]
               /\ SeatDeliver(e, [view EXCEPT !.draw_pile_count = Len(deck) - 1])

OtherDrawsHazard ==
    \E p \in Range(view.other_players) :
        /\ pending.stage = "others"
        /\ deck # <<>> /\ Head(deck) = EXPLODING
        /\ deck' = Tail(deck)
        /\ pending' = [pending EXCEPT !.stage = "drawn", !.player = p]
        /\ SeatDeliver(GameEvent("EXPLODING_KITTEN_DRAWN", p),
                       [view EXCEPT !.draw_pile_count = Len(deck) - 1])

OtherShuffles ==
    \E p \in Range(view.other_players), d \in TableShuffles(deck) :
        /\ pending.stage = "others"
        /\ deck' = d
        /\ LET e == GameEvent("DECK_SHUFFLED", p)
           IN  /\ pending' = [pending EXCEPT !.peek = PeekAfter(e, @)]
               /\ SeatDeliver(e, view)

TableDefused ==
    /\ pending.stage = "drawn"
    /\ pending.self_defuses < MaxTableDefuses
    /\ pending' = [pending EXCEPT !.stage = "defused", !.self_defuses = @ + 1]
    /\ SeatDeliver(GameEvent("DEFUSE_USED", pending.player), view)
    /\ UNCHANGED deck

TableInserted ==
    \E i \in 0..Len(deck) :
        /\ pending.stage = "defused"
        /\ deck' = InsertAt(deck, i, EXPLODING)
        /\ LET e == GameEvent("EXPLODING_KITTEN_INSERTED", pending.player)
           IN  /\ pending' = [pending EXCEPT
                                !.stage = IF pending.player = ME
                                          THEN AfterTurn(view.my_turns_remaining + 1)
                                          ELSE "others",
                                !.player = NoPlayer,
                                !.peek = PeekAfter(e, @)]
               /\ SeatDeliver(e, [view EXCEPT !.draw_pile_count = Len(deck) + 1])

TableEliminated ==
    /\ pending.stage = "drawn"
    /\ pending' = [pending EXCEPT
                      !.stage = IF pending.player = ME THEN "over" ELSE "others",
                      !.player = NoPlayer]
    /\ SeatDeliver(GameEvent("PLAYER_ELIMINATED", pending.player),
                   TableView(deck, Without(view.other_players, pending.player),
                             view.my_hand, view.my_turns_remaining))
    /\ UNCHANGED deck

NextTable ==
    \/ TableStart
    \/ TurnPasses
    \/ TableTakeTurn
    \/ TableDraw
    \/ TableDrawHazard
    \/ TablePlay
    \/ TableVetoed
    \/ TableShuffled
    \/ TablePeeked
    \/ TableSkipped
    \/ OtherDraws
    \/ OtherDrawsHazard
    \/ OtherShuffles
    \/ TableDefused
    \/ TableInserted
    \/ TableEliminated

SpecTable == InitTable /\ [][NextTable]_vars


\* the Shuffle cards the seat has played in its present turn
ShufflesThisTurn == Len(SelectSeq(pending.plays, LAMBDA k : k = SHUFFLE))

\* C22: TFTBot shuffles at most once per turn: after take_turn has returned
\* a Shuffle card, no further take_turn call returns a Shuffle card until
\* the turn has ended by a draw or a skip, whatever my_turns_remaining is
\* and however many Shuffle cards remain in hand.
C22_OneShufflePerTurn ==
    pending.seat = "tft" => ShufflesThisTurn <= 1


\* C23: in MastermindBot the just_peeked flag does not outlive the peek it
\* records: once a card-drawn event has been observed since the last peek
\* card was played, or a reshuffle or hazard insertion has cleared the
\* known-top sequence, just_peeked is False, also when the peek card was
\* vetoed and no cards-peeked event arrived.
C23_JustPeekedEndsWithPeek ==
    (pending.seat = "mastermind" /\ pending.peek = "none") => ~mastermind.just_peeked


\* C25: TFTBot's belief that the hazard is on top (ek_on_top) is true only
\* while the peek it came from is still valid: whenever ek_on_top is True,
\* no deck-reshuffled, hazard-inserted or card-drawn event has been observed
\* since the cards-peeked event that set it.
C25_HazardOnTopOnlyWhilePeekValid ==
    (pending.seat = "tft" /\ tft.ek_on_top) => pending.peek = "seen"


-----------------------------------------------------------------------------
(* The information gate (checked under SpecTurn)                            *)

\* C24: take_turn returns a See-the-Future card only when the draw pile is
\* non-empty and no peek knowledge is held (the known-top sequence is empty
\* or unknown), on every path including the one taken after the first
\* hazard has been seen.
C24_PeekOnlyWithoutKnowledge ==
    (TurnTaken(PeekAware) /\ Plays(STF))
    => view.draw_pile_count > 0 /\ ~Truthy(KnownTopOf(call.bot))


-----------------------------------------------------------------------------
(* Pinning and the phase (checked under SpecPin)                            *)

\* the initial player count a bot has pinned, if any
Pinned(bot) ==
    IF bot = "mastermind" THEN mastermind.initial_player_count # NoCount
    ELSE IF bot = "aaron" THEN aaron.initial_player_count # NoCount
    ELSE tft.num_players > 0

\* C26: the initial player count is pinned at most once per game: once it
\* has a value, no later take_turn call and no later event (a repeated
\* game-started event and a view with fewer living players included)
\* changes it.
C26_PinnedOnce ==
    [][ /\ Pinned("mastermind")
            => mastermind'.initial_player_count = mastermind.initial_player_count
        /\ Pinned("aaron")
            => aaron'.initial_player_count = aaron.initial_player_count
        /\ Pinned("tft")
            => tft'.num_players = tft.num_players ]_vars


-----------------------------------------------------------------------------
(* The risk formula (checked under SpecRisk)                                *)

\* the peek-aware estimator of a bot
Estimate(bot, s, v) ==
    IF bot = "mastermind" THEN Mastermind_calculate_ek_risk(s, v)
    ELSE Aaron_calculate_ek_risk(s, v)

\* the knowledge state of the bot that was called
StateOf(bot) == IF bot = "mastermind" THEN mastermind ELSE aaron

\* the cushion a bot applies with k neutralizers in hand: its estimate where
\* min(1, B / D) is 1 (two players, a one-card pile, nothing known)
Cushion(bot, k) ==
    Estimate(bot,
             [(IF bot = "mastermind" THEN MastermindInit ELSE AaronInit)
                 EXCEPT !.initial_player_count = 2],
             MakeView(Copies(DEFUSE, k), 1, 1, EmptyDict, 1))

\* min(1, B / D) of the estimator call just made
BaseRisk ==
    LET s == StateOf(call.bot)
        kt == s.known_top_cards
        B == Max(1, s.initial_player_count - 1 - s.kittens_removed)
        D == IF Truthy(kt) THEN Max(1, view.draw_pile_count - Len(kt))
             ELSE view.draw_pile_count
    IN  RMin(ROne, Rat(B, D))

\* the estimator was called with a non-empty pile, a pinned player count and
\* no hazard among the known top cards
NoHazardVisible ==
    /\ ret.kind = "risk" /\ call.bot \in PeekAware
    /\ view.draw_pile_count > 0
    /\ StateOf(call.bot).initial_player_count # NoCount
    /\ ~(Truthy(KnownTopOf(call.bot)) /\ Contains(KnownTopOf(call.bot), EXPLODING))

\* C27: with a non-empty pile and no hazard visible in the known-top
\* sequence, the estimated risk is min(1, B / D) times a cushion f(k) of the
\* number k of neutralizers held, with f(0) = 1, f non-increasing and
\* f(k) >= 0.3; B = max(1, initialPlayerCount - 1 - hazardRemoved), D is the
\* pile count when nothing is known and max(1, pile - len(knownTop)) otherwise.
C27_RiskIsBaseTimesCushion ==
    NoHazardVisible =>
        LET k == count_cards_of_type(view, DEFUSE)
        IN  /\ ret.value = RMul(BaseRisk, Cushion(call.bot, k))
            /\ Cushion(call.bot, 0) = ROne
            /\ RLe(Cushion(call.bot, k + 1), Cushion(call.bot, k))
            /\ RLe(Rat(3, 10), Cushion(call.bot, k))


\* the phase for `alive` living players out of `initial`
PhaseOf(alive, initial) ==
    IF alive = initial THEN "early"
    ELSE IF alive * 10 >= initial * 6 THEN "mid"
    ELSE "late"

PhaseRank(phase) == IF phase = "early" THEN 0 ELSE IF phase = "mid" THEN 1 ELSE 2

-----------------------------------------------------------------------------
(* SpecHistory: the opponent play histories.  Events of every kind, by the
   agent, by living opponents and by eliminated ones, are handed to on_event
   of the four bots; the log keeps what was handed over.                    *)

MaxHistory == 4

HistoryKinds == {SKIP, NOPE}

OtherEventTypes == {"CARD_DRAWN", "DEFUSE_USED"}

\* my_bot.MyBot.__init__
MyBotInit == [opponent_card_history |-> EmptyDict, defuses_played |-> 0]

\* faulty variant: a play is recorded whoever played it
Record_any_player(s, e, v) ==
    IF e.event_type = "CARD_PLAYED"
    THEN [s EXCEPT !.opponent_card_history =
                       Put(@, e.player_id, Append(Get(@, e.player_id, <<>>), e.card_type))]
    ELSE s

\* my_bot.MyBot.on_event
MyBot_on_event(s, e, v) ==
    IF e.event_type = "BOT_CHAT" THEN s
    ELSE
    LET player_id == e.player_id
        s1 == IF /\ e.event_type = "CARD_PLAYED"
                 /\ player_id # v.my_id /\ Contains(v.other_players, player_id)
              THEN [s EXCEPT !.opponent_card_history =
                                Put(@, player_id,
                                    Append(Get(@, player_id, <<>>), e.card_type))]
              ELSE s
        s2 == IF e.event_type = "CARD_PLAYED" /\ e.card_type = DEFUSE
              THEN [s1 EXCEPT !.defuses_played = @ + 1]
              ELSE s1
    IN  s2

\* the MyBot instance after the logged events, oldest first
RECURSIVE MyBotAfter(_)
MyBotAfter(log) ==
    IF log = <<>> THEN MyBotInit
    ELSE LET last == log[Len(log)]
         IN  MyBot_on_event(MyBotAfter(SubSeq(log, 1, Len(log) - 1)), last.e, last.v)

\* the card kinds of the logged card-played events of player p that found p
\* among the living other players of the view, oldest first
RECURSIVE ObservedPlays(_, _)
ObservedPlays(log, p) ==
    IF log = <<>> THEN <<>>
    ELSE LET last == log[Len(log)]
             before == ObservedPlays(SubSeq(log, 1, Len(log) - 1), p)
         IN  IF /\ last.e.event_type = "CARD_PLAYED" /\ last.e.player_id = p
                /\ Contains(last.v.other_players, p)
             THEN Append(before, last.e.card_type)
             ELSE before

HistoryPlayers == {ME, "p1", "p2"}

InitHistory ==
    /\ view = GameView(<<EXPLODING, TACOCAT>>, <<"p1", "p2">>)
    /\ mastermind = MastermindInit
    /\ aaron = AaronInit
    /\ tft = TFTInit
    /\ deck = <<EXPLODING, TACOCAT>>
    /\ pending = [stage |-> "none", player |-> NoPlayer, plays |-> 0,
                  self_defuses |-> 0, log |-> <<>>]
    /\ event = NoEvent
    /\ call = NoCall
    /\ ret = NoRet

\* event e is handed over with view v and logged
Logged(e, v) ==
    /\ Len(pending.log) < MaxHistory
    /\ pending' = [pending EXCEPT !.log = Append(@, [e |-> e, v |-> v])]
    /\ Deliver(e, v)
    /\ UNCHANGED deck

HistoryPlayed ==
    \E p \in HistoryPlayers, k \in HistoryKinds :
        /\ pending.stage = "none"
        /\ Logged([GameEvent("CARD_PLAYED", p) EXCEPT !.card_type = k], view)

HistoryEliminated ==
    \E p \in Range(view.other_players) :
        /\ pending.stage = "none"
        /\ Logged(GameEvent("PLAYER_ELIMINATED", p),
                  GameView(deck, Without(view.other_players, p)))

HistoryOther ==
    \E p \in HistoryPlayers, t \in OtherEventTypes :
        /\ pending.stage = "none"
        /\ Logged([GameEvent(t, p) EXCEPT !.card_type = SKIP], view)

NextHistory == HistoryPlayed \/ HistoryEliminated \/ HistoryOther

SpecHistory == InitHistory /\ [][NextHistory]_vars

\* the histories kept by the four bots
Histories ==
    { mastermind.opponent_card_history, aaron.opponent_card_history,
      tft.opponent_card_history, MyBotAfter(pending.log).opponent_card_history }

\* C29: each opponent's recorded play history is exactly the ordered card
\* kinds of the card-played events whose acting player was that opponent
\* while listed among the view's living other players; the per-kind counts
\* of that opponent sum to the length of the history; the agent's own plays,
\* plays by eliminated players and events of other types add no entry.
C29_HistoryIsObservedPlays ==
    \A p \in HistoryPlayers :
        /\ \A h \in Histories : Get(h, p, <<>>) = ObservedPlays(pending.log, p)
        /\ SumValues(Get(mastermind.opponent_card_counts, p, EmptyDict))
              = Len(Get(mastermind.opponent_card_history, p, <<>>))
        /\ SumValues(Get(aaron.opponent_card_counts, p, EmptyDict))
              = Len(Get(aaron.opponent_card_history, p, <<>>))

\* p2 has played a Skip and then a Nope, p1 has been eliminated and has then
\* played a card, which is not recorded
C29_Witness ==
    /\ event.event_type = "CARD_PLAYED" /\ event.player_id = "p1"
    /\ ~Contains(view.other_players, "p1")
    /\ Len(pending.log) = 4
    /\ aaron.opponent_card_history = Put(EmptyDict, "p2", <<SKIP, NOPE>>)


-----------------------------------------------------------------------------
(* The opponent model after observed plays (checked under SpecProfile)      *)

\* the model derived from the per-kind counts of one opponent
DerivedDefensive(h) ==
    RMin(Rat(9, 10),
         Rat(Get(h, SKIP, 0) + Get(h, ATTACK, 0) + Get(h, SHUFFLE, 0) + Get(h, DEFUSE, 0),
             SumValues(h)))

\* the veto probabilities the caps 0.7 and 0.8 allow
DerivedVetoes(h) ==
    { RMin(Rat(7, 10), Rat(Get(h, NOPE, 0), SumValues(h))),
      RMin(Rat(8, 10), Rat(Get(h, NOPE, 0), SumValues(h))) }

InUnit(x) == RLe(RZero, x) /\ RLe(x, ROne)

\* C30: for every opponent with at least one observed play the modelled
\* defensive probability is min(0.9, (skip + redirect + reshuffle +
\* neutralizer plays) / total plays) and the veto probability is
\* min(cap, veto plays / total plays) with a cap of at most 0.8; both lie in
\* [0, 1]; the values MastermindBot stores for an opponent equal the values
\* derived from that opponent's current counts.
C30_ModelFromCounts ==
    /\ \A p \in Range(view.other_players) :
          LET h == Get(mastermind.opponent_card_counts, p, EmptyDict)
          IN  SumValues(h) > 0 =>
                /\ mastermind.opponent_defense_prob[p] = DerivedDefensive(h)
                /\ mastermind.opponent_nope_prob[p] \in DerivedVetoes(h)
                /\ InUnit(mastermind.opponent_defense_prob[p])
                /\ InUnit(mastermind.opponent_nope_prob[p])
    /\ (call.fn = "simulate_opponent" /\ ObservedOf(aaron.opponent_card_counts) > 0) =>
          LET h == Get(aaron.opponent_card_counts, call.player_id, EmptyDict)
          IN  /\ ret.defensive = DerivedDefensive(h)
              /\ ret.nope \in DerivedVetoes(h)
              /\ InUnit(ret.defensive) /\ InUnit(ret.nope)

=============================================================================
